---- MODULE Spec2Model ----
(***************************************************************************)
(* Shopify order export -> SingPost manifests and Google Slides labels.    *)
(* Model of convert_orders.py, google_slides.py and the Streamlit script   *)
(* app.py.                                                                 *)
(*                                                                         *)
(* A DataFrame is a sequence of rows; a row is a function from column      *)
(* names to cell values, with the pandas index label under "index".        *)
(* Text cells are sequences of one-character strings.  An empty CSV cell   *)
(* is NaN.  Weights are in thousandths of a kilogram.                      *)
(***************************************************************************)
EXTENDS Integers, Sequences, FiniteSets, TLC

VARIABLES
    df_in,          \* clean_shopify_data: the table passed in
    df_out,         \* clean_shopify_data: the table returned
    df_obj,         \* clean_shopify_data: the caller's table object after the call
    buckets,        \* filter_international_orders: the four tables returned
    fpc,            \* position of the clean/filter pipeline
    order_file,     \* the Shopify export the user uploads
    secrets,        \* which of credentials and template URL are configured
    env,            \* os.environ: which of the two variables are set
    credentials_path, \* st.session_state.credentials_path is set
    disk,           \* orders_export.csv, singpost_orders.csv, singpost_orders_us.csv
    pc,             \* position of the script run
    run,            \* the script run: widgets and calls made
    conv,           \* locals of convert_shopify_to_singpost
    ret,            \* what convert_shopify_to_singpost returned
    presentation,   \* the slides of the remote presentation
    sl,             \* locals of create_shipping_slides
    next_id,        \* the next object id the presentation API hands out
    shown,          \* what the app displayed
    runs,           \* script runs completed
    arg,            \* the argument of a function applied on its own
    res,            \* what that function returned or requested
    sess            \* the UI sessions of one server process: each one's script run

None == "None"
\* None and a value where the value is a table or a file
Absent == <<>>
Some(x) == <<x>>
\* an empty cell: not a text
NaN == <<"NaN">>

(* ------------------------------ bounds --------------------------------- *)
MaxRows == 3

(* --------------------------- sequence helpers -------------------------- *)
Range(s) == {s[i] : i \in DOMAIN s}

SeqsUpTo(S, n) == UNION {[1..k -> S] : k \in 0..n}

\* python: sub in s
Contains(s, sub) ==
    \E i \in 0..(Len(s) - Len(sub)) : \A j \in 1..Len(sub) : s[i + j] = sub[j]

\* pandas assigns the RangeIndex 0..n-1 on read_csv
WithIndex(rows) == [i \in 1..Len(rows) |-> rows[i] @@ ("index" :> (i - 1))]

(* ------------------------------ input data ----------------------------- *)
Name1Hash == <<"#", "1">>
Name1Bare == <<"1">>
Name2Hash == <<"#", "2">>
Name3Hash == <<"#", "3">>

Paid == <<"p", "a", "i", "d">>
SG == <<"S", "G">>
US == <<"U", "S">>
CA == <<"C", "A">>
MY == <<"M", "Y">>

CottonS == <<"C", "o", "t", "t", "o", "n", " ", "1", "5", "0", "-", "1", "6", "0", "c", "m">>
TencelBundleM == <<"T", "e", "n", "c", "e", "l", " ", "B", "u", "n", "d", "l", "e", " ", "1", "6", "0", "-", "1", "7", "0">>

LineitemA ==
    ("Lineitem quantity" :> <<"1">>) @@ ("Lineitem name" :> CottonS) @@
    ("Lineitem price" :> 20) @@ ("Lineitem discount" :> 0)
LineitemB ==
    ("Lineitem quantity" :> <<"2">>) @@ ("Lineitem name" :> TencelBundleM) @@
    ("Lineitem price" :> 40) @@ ("Lineitem discount" :> 5)

\* a product the shop does not classify, an empty name cell, an empty
\* quantity cell
GiftCard == <<"G", "i", "f", "t", " ", "c", "a", "r", "d">>
LineitemUnknown ==
    ("Lineitem quantity" :> <<"1">>) @@ ("Lineitem name" :> GiftCard) @@
    ("Lineitem price" :> 10) @@ ("Lineitem discount" :> 0)
LineitemNoName ==
    ("Lineitem quantity" :> <<"1">>) @@ ("Lineitem name" :> NaN) @@
    ("Lineitem price" :> 20) @@ ("Lineitem discount" :> 0)
LineitemNoQuantity ==
    ("Lineitem quantity" :> NaN) @@ ("Lineitem name" :> CottonS) @@
    ("Lineitem price" :> 20) @@ ("Lineitem discount" :> 0)

MakeRow(name, fin, country, li) ==
    ("Name" :> name) @@ ("Financial Status" :> fin) @@
    ("Shipping Country" :> country) @@ li

\* rows that exercise the amendment merge: spellings of two order numbers,
\* paid and empty financial status, two line items
MergeRows ==
    {MakeRow(n, f, MY, li) : n \in {Name1Hash, Name1Bare, Name2Hash},
                               f \in {Paid, NaN}, li \in {LineitemA, LineitemB}}

\* rows that exercise the routing by country, a missing country included,
\* and rows with an empty financial status bound for each country bucket
RouteRows ==
    {MakeRow(n, Paid, c, LineitemA) : n \in {Name1Hash, Name2Hash},
                                      c \in {SG, US, CA, MY, NaN}}
    \cup {MakeRow(Name2Hash, NaN, c, LineitemA) : c \in {SG, US, CA}}

InputTables ==
    {WithIndex(t) : t \in SeqsUpTo(MergeRows, MaxRows) \cup SeqsUpTo(RouteRows, MaxRows)}

(* ------------------------- clean_shopify_data -------------------------- *)
\* df['Name'].str.replace('#', '').astype(str)
OrderNumber(name) == SelectSeq(name, LAMBDA c : c # "#")

AddOrderNumber(df) ==
    [i \in 1..Len(df) |-> df[i] @@ ("order_number" :> OrderNumber(df[i]["Name"]))]

\* Series.unique(): the values in order of first appearance
RECURSIVE Unique(_)
Unique(s) ==
    IF s = <<>> THEN <<>>
    ELSE LET init == Unique(SubSeq(s, 1, Len(s) - 1))
             x == s[Len(s)]
         IN  IF x \in Range(init) THEN init ELSE Append(init, x)

\* df[df.duplicated(subset=['order_number'], keep=False)]['order_number'].unique()
unique_order_numbers(df) ==
    LET dup(r) == Cardinality({i \in 1..Len(df) : df[i]["order_number"] = r["order_number"]}) > 1
        duplicate_orders == SelectSeq(df, dup)
    IN  Unique([i \in 1..Len(duplicate_orders) |-> duplicate_orders[i]["order_number"]])

lineitem_columns ==
    {"Lineitem quantity", "Lineitem name", "Lineitem price", "Lineitem discount"}

\* the row of df with index label k
RowAt(df, k) == CHOOSE r \in Range(df) : r["index"] = k

\* as last_row_index, but the second row of the order: order_rows.index[1]
last_row_index_Second(order_rows) == order_rows[2]["index"]

\* the label of the row the line items are copied from: order_rows.index[-1]
last_row_index(order_rows) == order_rows[Len(order_rows)]["index"]

\* as MergeOrder, but only the second row of the order is dropped
MergeOrder_DropSecondOnly(df, order_num) ==
    LET order_rows == SelectSeq(df, LAMBDA r : r["order_number"] = order_num)
    IN  IF Len(order_rows) >= 2
        THEN LET first_row_index == order_rows[1]["index"]
                 last == RowAt(df, last_row_index(order_rows))
                 copied == [i \in 1..Len(df) |->
                              IF df[i]["index"] = first_row_index
                              THEN [col \in DOMAIN df[i] |->
                                      IF col \in lineitem_columns THEN last[col]
                                      ELSE df[i][col]]
                              ELSE df[i]]
             IN  SelectSeq(copied, LAMBDA r : r["index"] # order_rows[2]["index"])
        ELSE df

\* as MergeOrder, but only the last row of the order is dropped
MergeOrder_DropLastOnly(df, order_num) ==
    LET order_rows == SelectSeq(df, LAMBDA r : r["order_number"] = order_num)
    IN  IF Len(order_rows) >= 2
        THEN LET first_row_index == order_rows[1]["index"]
                 last == RowAt(df, order_rows[Len(order_rows)]["index"])
                 copied == [i \in 1..Len(df) |->
                              IF df[i]["index"] = first_row_index
                              THEN [col \in DOMAIN df[i] |->
                                      IF col \in lineitem_columns THEN last[col]
                                      ELSE df[i][col]]
                              ELSE df[i]]
             IN  SelectSeq(copied, LAMBDA r : r["index"] # last["index"])
        ELSE df

\* one iteration of "for order_num in unique_order_numbers"
MergeOrder(df, order_num) ==
    LET order_rows == SelectSeq(df, LAMBDA r : r["order_number"] = order_num)
    IN  IF Len(order_rows) >= 2
        THEN LET first_row_index == order_rows[1]["index"]
                 last == RowAt(df, last_row_index(order_rows))
                 copied == [i \in 1..Len(df) |->
                              IF df[i]["index"] = first_row_index
                              THEN [col \in DOMAIN df[i] |->
                                      IF col \in lineitem_columns THEN last[col]
                                      ELSE df[i][col]]
                              ELSE df[i]]
                 dropped == {order_rows[k]["index"] : k \in 2..Len(order_rows)}
             IN  SelectSeq(copied, LAMBDA r : r["index"] \notin dropped)
        ELSE df

RECURSIVE MergeLoop(_, _)
MergeLoop(df, nums) ==
    IF nums = <<>> THEN df
    ELSE MergeLoop(MergeOrder(df, Head(nums)), Tail(nums))

\* as PaidOnly, without the filter
PaidOnly_KeepAll(df) == df

\* df[df['Financial Status'].notna()]
PaidOnly(df) == SelectSeq(df, LAMBDA r : r["Financial Status"] # NaN)

\* df.drop('order_number', axis=1)
DropOrderNumber(df) ==
    [i \in 1..Len(df) |-> [col \in DOMAIN df[i] \ {"order_number"} |-> df[i][col]]]

\* The table object the caller passed, after the call.  The new column is
\* assigned on it, and so are the line items of the first amended order
\* (df.at); from the first "df = df.drop(..)" on, df names a new table.
argument_after_clean(df) ==
    LET numbered == AddOrderNumber(df)
        nums == unique_order_numbers(numbered)
    IN  IF nums = <<>> THEN numbered
        ELSE LET order_rows == SelectSeq(numbered, LAMBDA r : r["order_number"] = Head(nums))
                 first_row_index == order_rows[1]["index"]
                 last == RowAt(numbered, last_row_index(order_rows))
             IN  [i \in 1..Len(numbered) |->
                    IF numbered[i]["index"] = first_row_index
                    THEN [col \in DOMAIN numbered[i] |->
                            IF col \in lineitem_columns THEN last[col]
                            ELSE numbered[i][col]]
                    ELSE numbered[i]]

clean_shopify_data(df) ==
    LET numbered == AddOrderNumber(df)
        merged == MergeLoop(numbered, unique_order_numbers(numbered))
    IN  DropOrderNumber(PaidOnly(merged))

(* --------------------- filter_international_orders --------------------- *)
sg_filter(r) == r["Shipping Country"] = SG
us_filter(r) == r["Shipping Country"] = US
ca_filter(r) == r["Shipping Country"] = CA
\* as intl_filter, without the Canada test
intl_filter_NoCanada(r) ==
    /\ r["Shipping Country"] # SG
    /\ r["Shipping Country"] # US

intl_filter(r) ==
    /\ r["Shipping Country"] # SG
    /\ r["Shipping Country"] # US
    /\ r["Shipping Country"] # CA

filter_international_orders(df) ==
    [intl |-> SelectSeq(df, intl_filter),
     sg   |-> SelectSeq(df, sg_filter),
     us   |-> SelectSeq(df, us_filter),
     ca   |-> SelectSeq(df, ca_filter)]


(* ------------------------ parse_product_details ------------------------ *)
Lower == <<"a","b","c","d","e","f","g","h","i","j","k","l","m",
           "n","o","p","q","r","s","t","u","v","w","x","y","z">>
UpperCase == <<"A","B","C","D","E","F","G","H","I","J","K","L","M",
               "N","O","P","Q","R","S","T","U","V","W","X","Y","Z">>
\* str.upper()
Upper(s) ==
    [i \in 1..Len(s) |->
        IF s[i] \in Range(Lower)
        THEN UpperCase[CHOOSE k \in 1..26 : Lower[k] = s[i]]
        ELSE s[i]]

BUNDLE == <<"B", "U", "N", "D", "L", "E">>
TWO_PAIRS == <<"2", " ", "P", "A", "I", "R", "S">>
BUNDLE_OF_2 == <<"B", "U", "N", "D", "L", "E", " ", "O", "F", " ", "2">>
COTTON == <<"C", "O", "T", "T", "O", "N">>
TENCEL == <<"T", "E", "N", "C", "E", "L">>

\* the size bands in the order the if/elif chain tests them
SizeBands == <<
    [text |-> <<"1", "0", "0", "-", "1", "1", "0">>, size |-> "(100-110cm)"],
    [text |-> <<"1", "1", "0", "-", "1", "2", "0">>, size |-> "(110-120cm)"],
    [text |-> <<"1", "2", "0", "-", "1", "3", "0">>, size |-> "(120-130cm)"],
    [text |-> <<"1", "3", "0", "-", "1", "4", "0">>, size |-> "(130-140cm)"],
    [text |-> <<"1", "4", "0", "-", "1", "5", "0">>, size |-> "XS (140-150cm)"],
    [text |-> <<"1", "5", "0", "-", "1", "6", "0">>, size |-> "S (150-160cm)"],
    [text |-> <<"1", "6", "0", "-", "1", "7", "0">>, size |-> "M (160-170cm)"],
    [text |-> <<"1", "7", "0", "-", "1", "8", "0">>, size |-> "L (170-180cm)"],
    [text |-> <<"1", "8", "0", "-", "1", "9", "0">>, size |-> "XL (180-190cm)"]
>>

\* as parse_product_details, with the two material tests in the other order
parse_product_details_TencelFirst(lineitem_name) ==
    LET name == Upper(lineitem_name)
        matching == {k \in 1..Len(SizeBands) : Contains(name, SizeBands[k].text)}
    IN  [is_bundle |-> \/ Contains(name, BUNDLE)
                       \/ Contains(name, TWO_PAIRS)
                       \/ Contains(name, BUNDLE_OF_2),
         material  |-> IF Contains(name, TENCEL) THEN "Tencel"
                       ELSE IF Contains(name, COTTON) THEN "Cotton"
                       ELSE "Unknown",
         size      |-> IF matching = {} THEN "Unknown"
                       ELSE SizeBands[CHOOSE k \in matching : \A j \in matching : k <= j].size]

parse_product_details(lineitem_name) ==
    LET name == Upper(lineitem_name)
        matching == {k \in 1..Len(SizeBands) : Contains(name, SizeBands[k].text)}
    IN  [is_bundle |-> \/ Contains(name, BUNDLE)
                       \/ Contains(name, TWO_PAIRS)
                       \/ Contains(name, BUNDLE_OF_2),
         material  |-> IF Contains(name, COTTON) THEN "Cotton"
                       ELSE IF Contains(name, TENCEL) THEN "Tencel"
                       ELSE "Unknown",
         size      |-> IF matching = {} THEN "Unknown"
                       ELSE SizeBands[CHOOSE k \in matching : \A j \in matching : k <= j].size]

(* ----------------------- export-row construction ----------------------- *)
Min(a, b) == IF a <= b THEN a ELSE b

\* '' for NaN, else str(value)[:length]
safe_str_slice(value, length) ==
    IF value = NaN THEN <<>> ELSE SubSeq(value, 1, Min(length, Len(value)))

\* a cell copied from an input column the rows here do not carry: the cell
\* is named by its row and column
Cell(row, col) == <<row["index"], col>>

weight_kg(is_bundle) == IF is_bundle THEN 500 ELSE 250
height(is_bundle) == IF is_bundle THEN 4 ELSE 2

\* size.split(" ")[0] if " " in size else size
FirstWord(size) ==
    CASE size = "XS (140-150cm)" -> "XS"
      [] size = "S (150-160cm)"  -> "S"
      [] size = "M (160-170cm)"  -> "M"
      [] size = "L (170-180cm)"  -> "L"
      [] size = "XL (180-190cm)" -> "XL"
      [] OTHER -> size

size_str(size) ==
    CASE size = "(100-110cm)" -> "(100cm)"
      [] size = "(110-120cm)" -> "(110cm)"
      [] size = "(120-130cm)" -> "(120cm)"
      [] size = "(130-140cm)" -> "(130cm)"
      [] OTHER -> FirstWord(size)

\* f"Eczema Bolero Shrug {quantity_str}{size_str} {material}"
simplified_description(is_bundle, material, size) ==
    <<"Eczema Bolero Shrug", IF is_bundle THEN "2" ELSE "1", size_str(size), material>>

\* a dict literal: a key written twice keeps the value written last
DictLiteral(keys, values) ==
    [k \in Range(keys) |->
        values[CHOOSE i \in 1..Len(keys) :
                  /\ keys[i] = k
                  /\ \A j \in 1..Len(keys) : keys[j] = k => j <= i]]

\* as intl_row_keys, with the Invoice number key written as the Certificate number key
intl_row_keys_DuplicateKey == <<
    "Send to business name (Max 35 characters) - *",
    "Send to contact person (Max 35 characters) ",
    "Send to address line 1 eg. Block no. (Max 35 characters) - *",
    "Send to address line 2 eg. Street name and Unit no. (Max 35 characters)- *",
    "Send to address line 3 eg. Building name (Max 35 Characters)",
    "Send to town (Max 30 characters) (Please spell in full)",
    "Send to state (Max 30 characters) (Please spell in full)",
    "Send to country (Max 2 characters) - * (Refer to Country List sheet)",
    "Send to postcode (Max 10 characters)",
    "Send to phone no. (Max 20 characters)",
    "Sender VAT/GST number (Max 50 characters) - Sender IOSS number for European Union (EU) destinations, or VAT/GST number for specific destination where applicable.",
    "Receiver VAT/GST number (Max 50 characters)",
    "Sender Reference (Max 20 characters)",
    "Category of shipment - Please type in either D (for document) M (for merchandise) S (for sample) or O (for others) (Max 1 character) - *",
    "If \"Others\", please describe (Max 50 characters)",
    "Total Item physical weight (min 0.001 kg) - *",
    "Item Length (cm)",
    "Item Width (cm)",
    "Item Height (cm)",
    " Item Content No. 1 Description  (Max 50 characters) - *",
    "Item Content No. 1 Quantity - *",
    "Item Content No. 1 Weight (min 0.001 kg) - *",
    " Item Content No. 1 Declared value (SGD)",
    "Item Content No. 1 HS tariff number (Max 6 characters)",
    "Item Content No. 1 Country of origin (Max 2 characters) - * (Refer to Country List sheet) ",
    "Item  Content No. 2 Description (Max 50 characters) ",
    "Item  Content No. 2 Quantity - *",
    "Item  Content No. 2 Weight (min 0.001 kg) - *",
    "Item  Content No. 2 Declared Value (SGD)",
    "Item Content No. 2 HS tariff number (Max 6 characters)",
    "Item Content No. 2 Country of origin(Max 2 characters) (Refer to Country List sheet) \n",
    "Item  Content No. 3 Description (Max 50 characters) ",
    "Item  Content No. 3 Quantity - *",
    "Item  Content No. 3 Weight (min 0.001 kg) - *",
    "Item  Content No. 3 Declared Value (SGD)",
    "Item Content No. 3 HS tariff number (Max 6 characters)",
    "Item Content No. 3 Country of origin(Max 2 characters) (Refer to Country List sheet) \n",
    "Enhanced Liability Amount (must be equal or lower than Declared value)",
    "Certificate number",
    "Certificate number",
    "Export license number",
    "Service code - Refer to Service List sheet (Max 20 characters)  - *"
>>

\* the 42 keys of intl_row, in the order written
intl_row_keys == <<
    "Send to business name (Max 35 characters) - *",
    "Send to contact person (Max 35 characters) ",
    "Send to address line 1 eg. Block no. (Max 35 characters) - *",
    "Send to address line 2 eg. Street name and Unit no. (Max 35 characters)- *",
    "Send to address line 3 eg. Building name (Max 35 Characters)",
    "Send to town (Max 30 characters) (Please spell in full)",
    "Send to state (Max 30 characters) (Please spell in full)",
    "Send to country (Max 2 characters) - * (Refer to Country List sheet)",
    "Send to postcode (Max 10 characters)",
    "Send to phone no. (Max 20 characters)",
    "Sender VAT/GST number (Max 50 characters) - Sender IOSS number for European Union (EU) destinations, or VAT/GST number for specific destination where applicable.",
    "Receiver VAT/GST number (Max 50 characters)",
    "Sender Reference (Max 20 characters)",
    "Category of shipment - Please type in either D (for document) M (for merchandise) S (for sample) or O (for others) (Max 1 character) - *",
    "If \"Others\", please describe (Max 50 characters)",
    "Total Item physical weight (min 0.001 kg) - *",
    "Item Length (cm)",
    "Item Width (cm)",
    "Item Height (cm)",
    " Item Content No. 1 Description  (Max 50 characters) - *",
    "Item Content No. 1 Quantity - *",
    "Item Content No. 1 Weight (min 0.001 kg) - *",
    " Item Content No. 1 Declared value (SGD)",
    "Item Content No. 1 HS tariff number (Max 6 characters)",
    "Item Content No. 1 Country of origin (Max 2 characters) - * (Refer to Country List sheet) ",
    "Item  Content No. 2 Description (Max 50 characters) ",
    "Item  Content No. 2 Quantity - *",
    "Item  Content No. 2 Weight (min 0.001 kg) - *",
    "Item  Content No. 2 Declared Value (SGD)",
    "Item Content No. 2 HS tariff number (Max 6 characters)",
    "Item Content No. 2 Country of origin(Max 2 characters) (Refer to Country List sheet) \n",
    "Item  Content No. 3 Description (Max 50 characters) ",
    "Item  Content No. 3 Quantity - *",
    "Item  Content No. 3 Weight (min 0.001 kg) - *",
    "Item  Content No. 3 Declared Value (SGD)",
    "Item Content No. 3 HS tariff number (Max 6 characters)",
    "Item Content No. 3 Country of origin(Max 2 characters) (Refer to Country List sheet) \n",
    "Enhanced Liability Amount (must be equal or lower than Declared value)",
    "Invoice number",
    "Certificate number",
    "Export license number",
    "Service code - Refer to Service List sheet (Max 20 characters)  - *"
>>

\* as us_row_keys, with the Invoice number key written as the Certificate number key
us_row_keys_DuplicateKey == <<
    "Cost centre code (Max 40 characters)",
    "Sender VAT/GST number (Max 50 characters)",
    "Send to business name (Max 35 characters) - *",
    "Send to contact person (Max 35 characters)",
    "Send to address line 1 eg. Block no. (Max 35 characters) - *",
    "Send to address line 2 eg. Street name and Unit no. (Max 35 characters)- *",
    "Send to address line 3 eg. Building name (Max 35 Characters)",
    "Send to town (Max 30 characters) (Please spell in full)",
    "Send to state (Max 30 characters) (Please spell in full)",
    "Send to country (Max 2 characters) - * (Refer to Country List sheet)",
    "Send to postcode (Max 10 characters)",
    "Send to phone no. (Max 20 characters)",
    "Send to email address",
    "Issuing Country of IOSS Number (Country code 2 characters) - only required if sending to EU and IOSS Number is provided",
    "Receiver VAT/GST number (Max 50 characters)",
    "Recipient EORI ID",
    "Issuing Country of Recipient EORI ID (Country code 2 characters) - required if the EORI Number is provided",
    "Sender Reference (Max 20 characters)",
    "Item Type - Please type in either D (for document) or P (for package) - (Max 1 character) - *",
    "Category of shipment - Please type in either D (for document) M (for merchandise) S (for sample) or O (for others) (Max 1 character) - *",
    "If \"Others\", please describe (Max 50 characters)",
    "Total Item physical weight (min 0.001 kg) - *",
    "Item Length (cm)",
    "Item Width (cm)",
    "Item Height (cm)",
    "Item Content No. 1 Description  (Max 50 characters) - *",
    "Item Content No. 1 Quantity",
    "Item Content No. 1 Weight (min 0.001 kg)",
    "Item Content No. 1 Declared Currency (Only USD) *",
    "Item Content No. 1 Declared value *",
    "Item Content No. 1 HS tariff number (10 characters) *",
    "Item Content No. 1 Country of origin (Max 2 characters) - * (Refer to Country List sheet)",
    "Item  Content No. 2 Description (Max 50 characters)",
    "Item  Content No. 2 Quantity",
    "Item Content No. 2 Weight (min 0.001 kg)",
    "Item Content No. 2 Declared Currency *",
    "Item content No. 2 Declared value",
    "Item Content No. 2 HS tariff number (10 characters) *",
    "Item Content No. 2 Country of origin(Max 2 characters) (Refer to Country List sheet)",
    "Item  Content No. 3 Description (Max 50 characters)",
    "Item  Content No. 3 Quantity",
    "Item Content No. 3 Weight (min 0.001 kg)",
    "Item Content No. 3 Declared Currency *",
    "Item content No. 3 Declared value",
    "Item Content No. 3 HS tariff number (10 characters) *",
    "Item Content No. 3 Country of origin(Max 2 characters) (Refer to Country List sheet)",
    "Enhanced Liability Amount (must be equal or lower than Declared value)",
    "Certificate number",
    "Certificate number",
    "Export license number",
    "Service code - Refer to Service List sheet (Max 20 characters)  - *",
    "Receiver ID Type",
    "Receiver ID Number (Max 50 characters)",
    "Tax ID (Max 35 characters)",
    "Product URL (Max 100 characters)"
>>

\* the 55 keys of us_row, in the order written
us_row_keys == <<
    "Cost centre code (Max 40 characters)",
    "Sender VAT/GST number (Max 50 characters)",
    "Send to business name (Max 35 characters) - *",
    "Send to contact person (Max 35 characters)",
    "Send to address line 1 eg. Block no. (Max 35 characters) - *",
    "Send to address line 2 eg. Street name and Unit no. (Max 35 characters)- *",
    "Send to address line 3 eg. Building name (Max 35 Characters)",
    "Send to town (Max 30 characters) (Please spell in full)",
    "Send to state (Max 30 characters) (Please spell in full)",
    "Send to country (Max 2 characters) - * (Refer to Country List sheet)",
    "Send to postcode (Max 10 characters)",
    "Send to phone no. (Max 20 characters)",
    "Send to email address",
    "Issuing Country of IOSS Number (Country code 2 characters) - only required if sending to EU and IOSS Number is provided",
    "Receiver VAT/GST number (Max 50 characters)",
    "Recipient EORI ID",
    "Issuing Country of Recipient EORI ID (Country code 2 characters) - required if the EORI Number is provided",
    "Sender Reference (Max 20 characters)",
    "Item Type - Please type in either D (for document) or P (for package) - (Max 1 character) - *",
    "Category of shipment - Please type in either D (for document) M (for merchandise) S (for sample) or O (for others) (Max 1 character) - *",
    "If \"Others\", please describe (Max 50 characters)",
    "Total Item physical weight (min 0.001 kg) - *",
    "Item Length (cm)",
    "Item Width (cm)",
    "Item Height (cm)",
    "Item Content No. 1 Description  (Max 50 characters) - *",
    "Item Content No. 1 Quantity",
    "Item Content No. 1 Weight (min 0.001 kg)",
    "Item Content No. 1 Declared Currency (Only USD) *",
    "Item Content No. 1 Declared value *",
    "Item Content No. 1 HS tariff number (10 characters) *",
    "Item Content No. 1 Country of origin (Max 2 characters) - * (Refer to Country List sheet)",
    "Item  Content No. 2 Description (Max 50 characters)",
    "Item  Content No. 2 Quantity",
    "Item Content No. 2 Weight (min 0.001 kg)",
    "Item Content No. 2 Declared Currency *",
    "Item content No. 2 Declared value",
    "Item Content No. 2 HS tariff number (10 characters) *",
    "Item Content No. 2 Country of origin(Max 2 characters) (Refer to Country List sheet)",
    "Item  Content No. 3 Description (Max 50 characters)",
    "Item  Content No. 3 Quantity",
    "Item Content No. 3 Weight (min 0.001 kg)",
    "Item Content No. 3 Declared Currency *",
    "Item content No. 3 Declared value",
    "Item Content No. 3 HS tariff number (10 characters) *",
    "Item Content No. 3 Country of origin(Max 2 characters) (Refer to Country List sheet)",
    "Enhanced Liability Amount (must be equal or lower than Declared value)",
    "Invoice number",
    "Certificate number",
    "Export license number",
    "Service code - Refer to Service List sheet (Max 20 characters)  - *",
    "Receiver ID Type",
    "Receiver ID Number (Max 50 characters)",
    "Tax ID (Max 35 characters)",
    "Product URL (Max 100 characters)"
>>

create_intl_singpost_row(row, is_bundle, material, size, hs_code, declared_value) ==
    DictLiteral(intl_row_keys, <<
            Cell(row, "Shipping Name"),
            Cell(row, "Shipping Name"),
            Cell(row, "Shipping Address1"),
            Cell(row, "Shipping Address2"),
            <<>>,
            Cell(row, "Shipping City"),
            Cell(row, "Shipping Province Name"),
            safe_str_slice(row["Shipping Country"], 2),
            Cell(row, "Shipping Zip"),
            Cell(row, "Shipping Phone"),
            <<>>,
            <<>>,
            safe_str_slice(row["Name"], 20),
            <<"M">>,
            <<>>,
            weight_kg(is_bundle),
            20,
            10,
            height(is_bundle),
            simplified_description(is_bundle, material, size),
            row["Lineitem quantity"],
            weight_kg(is_bundle),
            declared_value,
            hs_code,
            <<"S", "G">>,
            <<>>,
            <<>>,
            <<>>,
            <<>>,
            <<>>,
            <<>>,
            <<>>,
            <<>>,
            <<>>,
            <<>>,
            <<>>,
            <<>>,
            <<>>,
            row["Name"],
            <<>>,
            <<>>,
            <<"I", "R", "R", "E", "P", "K">>
        >>)

create_us_singpost_row(row, is_bundle, material, size, hs_code, usd_price) ==
    DictLiteral(us_row_keys, <<
            <<>>,
            <<>>,
            Cell(row, "Shipping Name"),
            Cell(row, "Shipping Name"),
            Cell(row, "Shipping Address1"),
            Cell(row, "Shipping Address2"),
            <<>>,
            Cell(row, "Shipping City"),
            Cell(row, "Shipping Province Name"),
            safe_str_slice(row["Shipping Country"], 2),
            Cell(row, "Shipping Zip"),
            Cell(row, "Shipping Phone"),
            Cell(row, "Email"),
            <<>>,
            <<>>,
            <<>>,
            <<>>,
            safe_str_slice(row["Name"], 20),
            <<"P">>,
            <<"M">>,
            <<>>,
            weight_kg(is_bundle),
            20,
            10,
            height(is_bundle),
            simplified_description(is_bundle, material, size),
            row["Lineitem quantity"],
            weight_kg(is_bundle),
            <<"U", "S", "D">>,
            usd_price,
            hs_code,
            <<"S", "G">>,
            <<>>,
            <<>>,
            <<>>,
            <<>>,
            <<>>,
            <<>>,
            <<>>,
            <<>>,
            <<>>,
            <<>>,
            <<>>,
            <<>>,
            <<>>,
            <<>>,
            <<>>,
            row["Name"],
            <<>>,
            <<>>,
            <<"W", "W", "C", "C", "O", "M">>,
            <<>>,
            <<>>,
            <<>>,
            <<>>
        >>)

(* ------------------------------ more bounds ---------------------------- *)
MaxOrders == 2
MaxRuns == 1

(* ------------------- convert_shopify_to_singpost: rows ----------------- *)
\* US-specific HS codes (10 digits)
us_hs_code(material) ==
    IF material = "Cotton" THEN "6114200060"
    ELSE IF material = "Tencel" THEN "6114303070"
    ELSE "6114200060"

\* as intl_hs_code, with the default of an unclassified material set to Tencel
intl_hs_code_DefaultTencel(material) ==
    IF material = "Cotton" THEN "611420"
    ELSE IF material = "Tencel" THEN "611430"
    ELSE "611430"

\* International HS codes (6 digits)
intl_hs_code(material) ==
    IF material = "Cotton" THEN "611420"
    ELSE IF material = "Tencel" THEN "611430"
    ELSE "611420"

intl_declared_value(is_bundle) == IF is_bundle THEN 40 ELSE 20

\* the detail dict of one order (the Singapore address fields left out)
order_detail(row) ==
    LET p == parse_product_details(row["Lineitem name"])
    IN  [order_number |-> row["Name"],
         country      |-> safe_str_slice(row["Shipping Country"], 2),
         size         |-> FirstWord(p.size),
         material     |-> p.material,
         is_bundle    |-> p.is_bundle,
         quantity     |-> IF p.is_bundle THEN 2 ELSE 1]

order_details(region_df) == [i \in 1..Len(region_df) |-> order_detail(region_df[i])]

\* the region a bucket's rows get an export row for
us_exported(region_name) == region_name = "US"

\* as intl_exported, with Canada exported too
intl_exported_WithCanada(region_name) == region_name \in {"International", "Canada"}

intl_exported(region_name) == region_name = "International"

\* the export rows the loop over one region appends to us_singpost_data
us_rows_of(region_name, region_df, us_usd_prices) ==
    IF us_exported(region_name)
    THEN [i \in 1..Len(region_df) |->
            LET row == region_df[i]
                p == parse_product_details(row["Lineitem name"])
            IN  create_us_singpost_row(row, p.is_bundle, p.material, p.size,
                                       us_hs_code(p.material),
                                       us_usd_prices[OrderNumber(row["Name"])])]
    ELSE <<>>

\* the export rows the loop over one region appends to intl_singpost_data
intl_rows_of(region_name, region_df) ==
    IF intl_exported(region_name)
    THEN [i \in 1..Len(region_df) |->
            LET row == region_df[i]
                p == parse_product_details(row["Lineitem name"])
            IN  create_intl_singpost_row(row, p.is_bundle, p.material, p.size,
                                         intl_hs_code(p.material),
                                         intl_declared_value(p.is_bundle))]
    ELSE <<>>

\* the loop over the four regions, in the order the code lists them
us_singpost_data(b, prices) ==
    us_rows_of("Singapore", b.sg, prices) \o us_rows_of("US", b.us, prices) \o
    us_rows_of("Canada", b.ca, prices) \o us_rows_of("International", b.intl, prices)

intl_singpost_data(b) ==
    intl_rows_of("Singapore", b.sg) \o intl_rows_of("US", b.us) \o
    intl_rows_of("Canada", b.ca) \o intl_rows_of("International", b.intl)

\* pd.DataFrame(list of dicts): the columns are the keys of the dicts; of
\* the cells, those of the columns below are kept
KeptColumns ==
    {"Send to country (Max 2 characters) - * (Refer to Country List sheet)",
     "Sender Reference (Max 20 characters)",
     "Total Item physical weight (min 0.001 kg) - *",
     "Item Height (cm)",
     "Item Content No. 1 Quantity - *",
     "Invoice number"}

DataFrame(data) ==
    [columns |-> Cardinality(UNION {DOMAIN data[i] : i \in 1..Len(data)}),
     rows    |-> [i \in 1..Len(data) |->
                    [c \in KeptColumns \cap DOMAIN data[i] |-> data[i][c]]]]

\* the price the Shopify API returns for an order: a value per order number
usd_price_of(order_number) == <<"USD", order_number>>

(* --------------------------- remote document --------------------------- *)
\* a slide of the presentation: its object id, what it is and what it shows
DateSlide(id) == [id |-> id, kind |-> "date", text |-> None]
LabelSlide(id) == [id |-> id, kind |-> "label", text |-> None]

SlideIndex(slides, id) == CHOOSE i \in 1..Len(slides) : slides[i].id = id

\* duplicateObject: the copy is placed right after the original
DuplicateObject(slides, id, new_id) ==
    LET i == SlideIndex(slides, id)
    IN  SubSeq(slides, 1, i) \o <<[slides[i] EXCEPT !.id = new_id]>> \o
        SubSeq(slides, i + 1, Len(slides))

\* updateSlidesPosition: insertionIndex is zero-based and refers to the
\* arrangement before the move
UpdateSlidesPosition(slides, id, insertionIndex) ==
    LET s == slides[SlideIndex(slides, id)]
        keep(x) == x.id # id
    IN  SelectSeq(SubSeq(slides, 1, insertionIndex), keep) \o <<s>> \o
        SelectSeq(SubSeq(slides, insertionIndex + 1, Len(slides)), keep)

SetText(slides, id, text) ==
    [i \in 1..Len(slides) |->
        IF slides[i].id = id THEN [slides[i] EXCEPT !.text = text] ELSE slides[i]]

(* ------------------- the clean / filter pipeline ----------------------- *)
pvars == <<df_in, df_out, df_obj, buckets, fpc>>
avars == <<order_file, secrets, env, credentials_path, disk, pc, run, conv, ret,
           presentation, sl, next_id, shown, runs>>
\* a function applied on its own
fvars == <<arg, res, sess>>
vars == <<pvars, avars, fvars>>

NoBuckets == [intl |-> <<>>, sg |-> <<>>, us |-> <<>>, ca |-> <<>>]

InitPipeline ==
    /\ df_in \in InputTables
    /\ df_out = <<>>
    /\ df_obj = df_in
    /\ arg = <<>> /\ res = <<>> /\ sess = <<>>
    /\ buckets = NoBuckets
    /\ fpc = "read"
    /\ order_file = <<>>
    /\ secrets = [creds |-> FALSE, template |-> FALSE]
    /\ env = [GOOGLE_CREDENTIALS_PATH |-> FALSE, SLIDES_TEMPLATE_URL |-> FALSE]
    /\ credentials_path = FALSE
    /\ disk = [orders |-> Absent, intl_csv |-> Absent, us_csv |-> Absent]
    /\ pc = "unused"
    /\ run = None /\ conv = None /\ ret = <<>> /\ presentation = <<>> /\ sl = None
    /\ next_id = 0 /\ shown = None /\ runs = 0

Clean ==
    /\ fpc = "read"
    /\ df_out' = clean_shopify_data(df_in)
    /\ df_obj' = argument_after_clean(df_in)
    /\ fpc' = "cleaned"
    /\ UNCHANGED <<df_in, buckets, avars, fvars>>

Filter ==
    /\ fpc = "cleaned"
    /\ buckets' = filter_international_orders(df_out)
    /\ fpc' = "filtered"
    /\ UNCHANGED <<df_in, df_out, df_obj, avars, fvars>>

\* clean_shopify_data called on the table it returned
CleanAgain ==
    /\ fpc = "filtered"
    /\ res' = clean_shopify_data(df_out)
    /\ fpc' = "recleaned"
    /\ UNCHANGED <<arg, sess, df_in, df_out, df_obj, buckets, avars>>

NextPipeline == Clean \/ Filter \/ CleanAgain

SpecPipeline == InitPipeline /\ [][NextPipeline]_vars


(* ------------------------------- the app ------------------------------- *)
\* the exports a user uploads: up to MaxOrders rows, one order per row, paid
\* orders to the four kinds of destination and orders with an empty financial
\* status to Singapore and abroad, the line items alternating
NameOfRow == <<Name1Hash, Name2Hash, Name3Hash>>
UploadRow(i, f, c) ==
    MakeRow(NameOfRow[i], f, c, IF i % 2 = 1 THEN LineitemA ELSE LineitemB)
Choices == ({Paid} \X {SG, US, CA, MY}) \cup ({NaN} \X {SG, MY})
UploadTables ==
    {WithIndex([i \in 1..Len(t) |-> UploadRow(i, t[i][1], t[i][2])]) :
        t \in SeqsUpTo(Choices, MaxOrders)}

TemplateSlides == <<DateSlide(1), LabelSlide(2)>>

NoRun == [uploaded |-> FALSE, clicked |-> FALSE, conversions |-> 0, drive_calls |-> 0]
NoConv ==
    [buckets |-> NoBuckets, us_usd_prices |-> <<>>,
     intl_singpost_data |-> <<>>, us_singpost_data |-> <<>>,
     sg_order_details |-> <<>>, us_order_details |-> <<>>,
     ca_order_details |-> <<>>, intl_order_details |-> <<>>,
     intl_df |-> Absent, us_df |-> Absent, summary |-> <<>>, slides_url |-> None,
     slides_calls |-> 0, api_failed |-> FALSE, slides_raised |-> FALSE,
     files_written |-> {}, warnings |-> {},
     price_responses |-> <<>>, price_requests |-> 0, price_error |-> None]
NoSlides ==
    [slides_before |-> 0, date_slide_id |-> 0, template_slide_id |-> 0,
     new_date_slide_id |-> 0, new_slide_id |-> 0,
     i |-> 1, insert_index |-> 1, status |-> <<>>]

PresentationUrl == "https://docs.google.com/presentation/d/<template_id>/edit"

Init ==
    /\ order_file \in UploadTables
    /\ secrets \in [creds : BOOLEAN, template : BOOLEAN]
    /\ env = [GOOGLE_CREDENTIALS_PATH |-> FALSE, SLIDES_TEMPLATE_URL |-> FALSE]
    /\ credentials_path = FALSE
    /\ disk = [orders |-> Absent, intl_csv |-> Absent, us_csv |-> Absent]
    /\ pc = "idle"
    /\ run = NoRun
    /\ conv = NoConv
    /\ ret = <<>>
    /\ presentation = TemplateSlides
    /\ sl = NoSlides
    /\ next_id = 3
    /\ shown = None
    /\ runs = 0
    /\ df_in = <<>> /\ df_out = <<>> /\ df_obj = <<>> /\ buckets = NoBuckets
    /\ fpc = "unused"
    /\ arg = <<>> /\ res = <<>> /\ sess = <<>>

\* One run of the script from its top to the upload widget and the button:
\* the sidebar stores the credentials and the template URL, an uploaded file
\* is saved as orders_export.csv, and the button can only be clicked when a
\* file is uploaded.
ScriptRun(uploaded, clicked) ==
    /\ pc = "idle"
    /\ runs < MaxRuns
    /\ clicked => uploaded
    /\ credentials_path' = (credentials_path \/ secrets.creds)
    /\ env' = [GOOGLE_CREDENTIALS_PATH |-> env.GOOGLE_CREDENTIALS_PATH \/ secrets.creds,
               SLIDES_TEMPLATE_URL |-> env.SLIDES_TEMPLATE_URL \/ secrets.template]
    /\ disk' = IF uploaded THEN [disk EXCEPT !.orders = Some(order_file)] ELSE disk
    /\ run' = [uploaded |-> uploaded, clicked |-> clicked,
               conversions |-> 0, drive_calls |-> 0]
    /\ conv' = NoConv
    /\ sl' = NoSlides
    /\ ret' = <<>>
    /\ shown' = None
    /\ pc' = IF uploaded /\ clicked THEN "check" ELSE "convert"
    /\ UNCHANGED <<order_file, secrets, presentation, next_id, runs, pvars, fvars>>

\* the permission check of the button branch: check_template_permissions
\* asks Drive for the template file when a template URL and a credentials
\* path are set
PermissionCheck ==
    /\ pc = "check"
    /\ run' = IF env.SLIDES_TEMPLATE_URL /\ credentials_path
              THEN [run EXCEPT !.drive_calls = @ + 1]
              ELSE run
    /\ pc' = "convert"
    /\ UNCHANGED <<order_file, secrets, env, credentials_path, disk, conv, ret,
                   presentation, sl, next_id, shown, runs, pvars, fvars>>

(* --------------------- convert_shopify_to_singpost --------------------- *)
\* the call, the check that the input file exists, read, clean and filter
ConvertStart ==
    /\ pc = "convert"
    /\ run' = [run EXCEPT !.conversions = @ + 1]
    /\ IF disk.orders = Absent
       THEN /\ ret' = <<"Error: Input file not found", Absent, Absent>>
            /\ pc' = "show"
            /\ conv' = conv
       ELSE /\ conv' = [conv EXCEPT !.buckets =
                          filter_international_orders(clean_shopify_data(disk.orders[1]))]
            /\ pc' = "fetch"
            /\ ret' = ret
    /\ UNCHANGED <<order_file, secrets, env, credentials_path, disk,
                   presentation, sl, next_id, shown, runs, pvars, fvars>>

\* what the Shopify API answers to the request for one order: the price, a
\* request error, no such order, a response of another shape; conv keeps
\* the answers to the requests issued
PriceResponses == {"ok", "request_error", "not_found", "bad_shape"}

\* the first order whose request does not yield a price, 0 when there is none
first_failure(responses) ==
    IF \A k \in 1..Len(responses) : responses[k] = "ok" THEN 0
    ELSE CHOOSE k \in 1..Len(responses) :
            /\ responses[k] # "ok"
            /\ \A j \in 1..(k - 1) : responses[j] = "ok"

\* as requests_issued, with the loop going on after a failed request
requests_issued_All(responses) == Len(responses)

\* the requests the loop over us_orders issues: a failure raises out of it
requests_issued(responses) ==
    IF first_failure(responses) = 0 THEN Len(responses) ELSE first_failure(responses)

\* fetch_usd_prices_from_shopify, called when there are US orders, and the
\* except clause around the call
FetchPrices(configured, responses) ==
    /\ pc = "fetch"
    /\ IF conv.buckets.us = <<>>
       THEN /\ configured
            /\ responses = <<>>
            /\ pc' = "build"
            /\ UNCHANGED <<conv, ret>>
       ELSE /\ Len(responses) = Len(conv.buckets.us)
            /\ IF ~configured
               THEN /\ conv' = [conv EXCEPT !.price_error = "not_configured"]
                    /\ ret' = <<"Error fetching USD prices from Shopify API", Absent, Absent, None>>
                    /\ pc' = "show"
               ELSE IF first_failure(responses) = 0
                    THEN /\ conv' = [conv EXCEPT
                               !.us_usd_prices =
                                   [n \in {OrderNumber(r["Name"]) : r \in Range(conv.buckets.us)}
                                       |-> usd_price_of(n)],
                               !.price_responses = SubSeq(responses, 1, requests_issued(responses)),
                               !.price_requests = requests_issued(responses)]
                         /\ pc' = "build"
                         /\ ret' = ret
                    ELSE /\ conv' = [conv EXCEPT
                               !.price_responses = SubSeq(responses, 1, requests_issued(responses)),
                               !.price_requests = requests_issued(responses),
                               !.price_error = responses[first_failure(responses)]]
                         /\ ret' = <<"Error fetching USD prices from Shopify API", Absent, Absent, None>>
                         /\ pc' = "show"
    /\ UNCHANGED <<order_file, secrets, env, credentials_path, disk, run,
                   presentation, sl, next_id, shown, runs, pvars, fvars>>

\* the exception that leaves convert_shopify_to_singpost
Raise(error) ==
    /\ ret' = <<"raised", error>>
    /\ pc' = "show"

\* as upper_raises, with the empty cell read as a text
upper_raises_Never(lineitem_name) == FALSE

\* "lineitem_name.upper()": an empty cell is a float, which has no upper()
upper_raises(lineitem_name) == lineitem_name = NaN

\* the loop over the four regions: order details and export rows
BuildRows ==
    /\ pc = "build"
    /\ IF \E r \in Range(conv.buckets.sg \o conv.buckets.us \o conv.buckets.ca \o
                         conv.buckets.intl) : upper_raises(r["Lineitem name"])
       THEN /\ Raise("AttributeError")
            /\ conv' = conv
       ELSE /\ conv' = [conv EXCEPT
                          !.sg_order_details = order_details(conv.buckets.sg),
                          !.us_order_details = order_details(conv.buckets.us),
                          !.ca_order_details = order_details(conv.buckets.ca),
                          !.intl_order_details = order_details(conv.buckets.intl),
                          !.us_singpost_data = us_singpost_data(conv.buckets, conv.us_usd_prices),
                          !.intl_singpost_data = intl_singpost_data(conv.buckets),
                          !.summary = <<"ORDER DETAILS BY REGION">>]
            /\ pc' = "write_intl"
            /\ ret' = ret
    /\ UNCHANGED <<order_file, secrets, env, credentials_path, disk, run,
                   presentation, sl, next_id, shown, runs, pvars, fvars>>

\* the columns of the two templates whose name ends with '- *'
required_suffix_columns ==
    {"Send to business name (Max 35 characters) - *",
     "Send to address line 1 eg. Block no. (Max 35 characters) - *",
     "Send to address line 2 eg. Street name and Unit no. (Max 35 characters)- *",
     "Item Type - Please type in either D (for document) or P (for package) - (Max 1 character) - *",
     "Category of shipment - Please type in either D (for document) M (for merchandise) S (for sample) or O (for others) (Max 1 character) - *",
     "Total Item physical weight (min 0.001 kg) - *",
     " Item Content No. 1 Description  (Max 50 characters) - *",
     "Item Content No. 1 Description  (Max 50 characters) - *",
     "Item Content No. 1 Quantity - *",
     "Item Content No. 1 Weight (min 0.001 kg) - *",
     "Item  Content No. 2 Quantity - *",
     "Item  Content No. 2 Weight (min 0.001 kg) - *",
     "Item  Content No. 3 Quantity - *",
     "Item  Content No. 3 Weight (min 0.001 kg) - *",
     "Service code - Refer to Service List sheet (Max 20 characters)  - *"}

\* the required columns whose cells are numbers the code computes
weight_columns ==
    {"Total Item physical weight (min 0.001 kg) - *",
     "Item Content No. 1 Weight (min 0.001 kg) - *"}

\* the required columns of a table in which "isna().sum()" is positive
missing_required(data) ==
    {col \in (UNION {DOMAIN data[i] : i \in 1..Len(data)}) \cap required_suffix_columns :
        /\ col \notin weight_columns
        /\ \E i \in 1..Len(data) : data[i][col] = NaN}

\* as required_fields_check, with a missing value raised as an error
required_fields_check_Raise(data) ==
    [warnings |-> missing_required(data), raised |-> missing_required(data) # {}]

\* "Validate required fields": a warning is printed for each such column
required_fields_check(data) ==
    [warnings |-> missing_required(data), raised |-> FALSE]

\* "Create International CSV if there are international orders"
WriteInternational ==
    /\ pc = "write_intl"
    /\ IF conv.intl_singpost_data # <<>>
       THEN LET intl_df == DataFrame(conv.intl_singpost_data)
            IN  IF intl_df.columns # 42
                THEN /\ Raise("ValueError")
                     /\ conv' = [conv EXCEPT !.intl_df = Some(intl_df)]
                     /\ disk' = disk
                ELSE LET check == required_fields_check(conv.intl_singpost_data)
                     IN  /\ disk' = [disk EXCEPT !.intl_csv = Some(intl_df)]
                         /\ IF check.raised
                            THEN /\ Raise("ValueError")
                                 /\ conv' = [conv EXCEPT
                                       !.intl_df = Some(intl_df),
                                       !.files_written = @ \cup {"singpost_orders.csv"}]
                            ELSE /\ conv' = [conv EXCEPT
                                       !.intl_df = Some(intl_df),
                                       !.files_written = @ \cup {"singpost_orders.csv"},
                                       !.warnings = @ \cup check.warnings,
                                       !.summary = Append(@, "Created International SingPost file")]
                                 /\ pc' = "write_us"
                                 /\ ret' = ret
       ELSE /\ conv' = [conv EXCEPT !.summary = Append(@, "No international orders to export")]
            /\ pc' = "write_us"
            /\ UNCHANGED <<disk, ret>>
    /\ UNCHANGED <<order_file, secrets, env, credentials_path, run,
                   presentation, sl, next_id, shown, runs, pvars, fvars>>

\* "Create US CSV if there are US orders"
WriteUS ==
    /\ pc = "write_us"
    /\ IF conv.us_singpost_data # <<>>
       THEN LET us_df == DataFrame(conv.us_singpost_data)
            IN  IF us_df.columns # 55
                THEN /\ Raise("ValueError")
                     /\ conv' = [conv EXCEPT !.us_df = Some(us_df)]
                     /\ disk' = disk
                ELSE LET check == required_fields_check(conv.us_singpost_data)
                     IN  /\ disk' = [disk EXCEPT !.us_csv = Some(us_df)]
                         /\ IF check.raised
                            THEN /\ Raise("ValueError")
                                 /\ conv' = [conv EXCEPT
                                       !.us_df = Some(us_df),
                                       !.files_written = @ \cup {"singpost_orders_us.csv"}]
                            ELSE /\ conv' = [conv EXCEPT
                                       !.us_df = Some(us_df),
                                       !.files_written = @ \cup {"singpost_orders_us.csv"},
                                       !.warnings = @ \cup check.warnings,
                                       !.summary = Append(@, "Created US SingPost file")]
                                 /\ pc' = "labels"
                                 /\ ret' = ret
       ELSE /\ conv' = [conv EXCEPT !.summary = Append(@, "No US orders to export")]
            /\ pc' = "labels"
            /\ UNCHANGED <<disk, ret>>
    /\ UNCHANGED <<order_file, secrets, env, credentials_path, run,
                   presentation, sl, next_id, shown, runs, pvars, fvars>>

(* --------------- labels: create_shipping_slides and its caller --------- *)
\* as has_sg_orders, without the test
has_sg_orders_Always(sg_order_details) == TRUE

\* "if sg_order_details:"
has_sg_orders(sg_order_details) == sg_order_details # <<>>

\* as on_api_failure, with the exception raised again
on_api_failure_Reraise(in_slide_creation) == [raised |-> TRUE, value |-> None]

\* what the except clauses of create_shipping_slides make of a failed remote
\* call: None while reading the presentation, the presentation URL during
\* the slide creation; nothing is raised to the caller
on_api_failure(in_slide_creation) ==
    [raised |-> FALSE,
     value  |-> IF in_slide_creation THEN PresentationUrl ELSE None]

\* the caller's handling of what create_shipping_slides returned or raised
SlidesResult(c, outcome) ==
    [c EXCEPT
       !.slides_raised = outcome.raised,
       !.slides_url = outcome.value,
       !.summary = Append(@, IF outcome.raised THEN "Error creating Google Slides"
                             ELSE IF outcome.value # None
                                  THEN "Created Google Slides presentation"
                                  ELSE "Error: Could not create Google Slides")]

Returned(value) == [raised |-> FALSE, value |-> value]
Called(c, n) == [c EXCEPT !.slides_calls = @ + n]
Failed(c, n) == [c EXCEPT !.slides_calls = @ + n, !.api_failed = TRUE]

StartLabels ==
    /\ pc = "labels"
    /\ IF ~has_sg_orders(conv.sg_order_details)
       THEN /\ pc' = "return"
            /\ UNCHANGED <<conv, sl>>
       ELSE IF ~env.GOOGLE_CREDENTIALS_PATH
            THEN /\ conv' = [conv EXCEPT !.summary =
                               Append(@, "No Google credentials available for Slides integration")]
                 /\ pc' = "return"
                 /\ sl' = sl
            ELSE IF ~env.SLIDES_TEMPLATE_URL
                 THEN /\ conv' = [conv EXCEPT !.summary =
                                    Append(@, "Error: Could not parse template ID from URL")]
                      /\ pc' = "return"
                      /\ sl' = sl
                 ELSE /\ pc' = "sl_get"
                      /\ sl' = [NoSlides EXCEPT !.status =
                                  [k \in 1..Len(conv.sg_order_details) |-> "none"]]
                      /\ conv' = conv
    /\ UNCHANGED <<order_file, secrets, env, credentials_path, disk, run, ret,
                   presentation, next_id, shown, runs, pvars, fvars>>

\* presentations().get: the date slide and the template slide
GetPresentation(ok) ==
    /\ pc = "sl_get"
    /\ IF ~ok
       THEN /\ conv' = SlidesResult(Failed(conv, 1), on_api_failure(FALSE))
            /\ pc' = "return"
            /\ sl' = sl
       ELSE IF Len(presentation) < 2
            THEN /\ conv' = SlidesResult(Called(conv, 1), Returned(PresentationUrl))
                 /\ pc' = "return"
                 /\ sl' = sl
            ELSE /\ conv' = Called(conv, 1)
                 /\ sl' = [sl EXCEPT !.slides_before = Len(presentation),
                                     !.date_slide_id = presentation[1].id,
                                     !.template_slide_id = presentation[2].id]
                 /\ pc' = "sl_dup_date"
    /\ UNCHANGED <<order_file, secrets, env, credentials_path, disk, run, ret,
                   presentation, next_id, shown, runs, pvars, fvars>>

\* batchUpdate duplicateObject of the date slide
DuplicateDateSlide(ok) ==
    /\ pc = "sl_dup_date"
    /\ IF ok
       THEN /\ presentation' = DuplicateObject(presentation, sl.date_slide_id, next_id)
            /\ sl' = [sl EXCEPT !.new_date_slide_id = next_id]
            /\ next_id' = next_id + 1
            /\ conv' = Called(conv, 1)
            /\ pc' = "sl_move_date"
       ELSE /\ conv' = SlidesResult(Failed(conv, 1), on_api_failure(TRUE))
            /\ pc' = "return"
            /\ UNCHANGED <<presentation, sl, next_id>>
    /\ UNCHANGED <<order_file, secrets, env, credentials_path, disk, run, ret,
                   shown, runs, pvars, fvars>>

\* batchUpdate updateSlidesPosition of the new date slide to index 0
MoveDateSlide(ok) ==
    /\ pc = "sl_move_date"
    /\ IF ok
       THEN /\ presentation' = UpdateSlidesPosition(presentation, sl.new_date_slide_id, 0)
            /\ conv' = Called(conv, 1)
            /\ pc' = "sl_update_date"
       ELSE /\ conv' = SlidesResult(Failed(conv, 1), on_api_failure(TRUE))
            /\ pc' = "return"
            /\ presentation' = presentation
    /\ UNCHANGED <<order_file, secrets, env, credentials_path, disk, run, ret,
                   sl, next_id, shown, runs, pvars, fvars>>

\* the remote calls of a function that reads a page and then updates it, and
\* catches its own exceptions
PageUpdateOutcomes == {"ok", "get_failed", "update_failed"}
CallsOf(outcome) == IF outcome = "get_failed" THEN 1 ELSE 2
AfterPageUpdate(c, outcome) ==
    IF outcome = "ok" THEN Called(c, 2) ELSE Failed(c, CallsOf(outcome))

\* update_date_slide
UpdateDateSlide(outcome) ==
    /\ pc = "sl_update_date"
    /\ presentation' = IF outcome = "ok" THEN SetText(presentation, sl.new_date_slide_id, "today") ELSE presentation
    /\ conv' = AfterPageUpdate(conv, outcome)
    /\ pc' = "sl_dup"
    /\ UNCHANGED <<order_file, secrets, env, credentials_path, disk, run, ret,
                   sl, next_id, shown, runs, pvars, fvars>>

\* the loop over order_details: duplicateObject of the template slide
DuplicateTemplateSlide(ok) ==
    /\ pc = "sl_dup"
    /\ sl.i <= Len(conv.sg_order_details)
    /\ IF ok
       THEN /\ presentation' = DuplicateObject(presentation, sl.template_slide_id, next_id)
            /\ sl' = [sl EXCEPT !.new_slide_id = next_id, !.status[sl.i] = "created"]
            /\ next_id' = next_id + 1
            /\ conv' = Called(conv, 1)
            /\ pc' = "sl_position"
       ELSE /\ conv' = SlidesResult(Failed(conv, 1), on_api_failure(TRUE))
            /\ sl' = [sl EXCEPT !.status[sl.i] = "duplicate_failed"]
            /\ pc' = "return"
            /\ UNCHANGED <<presentation, next_id>>
    /\ UNCHANGED <<order_file, secrets, env, credentials_path, disk, run, ret,
                   shown, runs, pvars, fvars>>

\* updateSlidesPosition of the new slide to insert_index
PositionSlide(ok) ==
    /\ pc = "sl_position"
    /\ IF ok
       THEN /\ presentation' = UpdateSlidesPosition(presentation, sl.new_slide_id, sl.insert_index)
            /\ sl' = [sl EXCEPT !.status[sl.i] = "positioned"]
            /\ conv' = Called(conv, 1)
            /\ pc' = "sl_fill"
       ELSE /\ conv' = SlidesResult(Failed(conv, 1), on_api_failure(TRUE))
            /\ sl' = [sl EXCEPT !.status[sl.i] = "position_failed"]
            /\ pc' = "return"
            /\ presentation' = presentation
    /\ UNCHANGED <<order_file, secrets, env, credentials_path, disk, run, ret,
                   next_id, shown, runs, pvars, fvars>>

\* as next_insert_index, with the increment left out
next_insert_index_Stuck(insert_index) == insert_index

\* "insert_index += 1"
next_insert_index(insert_index) == insert_index + 1

\* update_order_details, then "insert_index += 1"
UpdateOrderDetails(outcome) ==
    /\ pc = "sl_fill"
    /\ presentation' = IF outcome = "ok"
                 THEN SetText(presentation, sl.new_slide_id, conv.sg_order_details[sl.i].order_number)
                 ELSE presentation
    /\ conv' = AfterPageUpdate(conv, outcome)
    /\ sl' = [sl EXCEPT !.status[sl.i] = IF outcome = "ok" THEN "filled" ELSE "fill_failed",
                        !.i = @ + 1,
                        !.insert_index = next_insert_index(@)]
    /\ pc' = "sl_dup"
    /\ UNCHANGED <<order_file, secrets, env, credentials_path, disk, run, ret,
                   next_id, shown, runs, pvars, fvars>>

\* the end of the loop: "return presentation_url"
SlidesDone ==
    /\ pc = "sl_dup"
    /\ sl.i > Len(conv.sg_order_details)
    /\ conv' = SlidesResult(conv, Returned(PresentationUrl))
    /\ pc' = "return"
    /\ UNCHANGED <<order_file, secrets, env, credentials_path, disk, run, ret,
                   presentation, sl, next_id, shown, runs, pvars, fvars>>

\* "return summary, intl_df, us_df, slides_url"
Return ==
    /\ pc = "return"
    /\ ret' = <<conv.summary, conv.intl_df, conv.us_df, conv.slides_url>>
    /\ pc' = "show"
    /\ UNCHANGED <<order_file, secrets, env, credentials_path, disk, run, conv,
                   presentation, sl, next_id, shown, runs, pvars, fvars>>

(* ----------------------- the app shows the result ---------------------- *)
\* what unpacking the returned tuple into four names raises
unpack_error(returned) ==
    IF Len(returned) < 4 THEN "ValueError: not enough values to unpack"
    ELSE "ValueError: too many values to unpack"

\* "result, pdf_path, slides_url, debug_log = convert_shopify_to_singpost(..)"
\* and the display below it; a DataFrame used as a condition raises
Show ==
    /\ pc = "show"
    /\ shown' =
        IF Len(ret) # 4
        THEN [completed |-> FALSE, summary |-> None, preview |-> Absent, link |-> None,
              error |-> IF ret[1] = "raised" THEN ret[2] ELSE unpack_error(ret)]
        ELSE LET pdf_path == ret[2]
                 slides_url == ret[3]
             IN  [completed |-> TRUE,
                  summary   |-> ret[1],
                  preview   |-> disk.intl_csv,
                  link      |-> None,
                  error     |-> IF pdf_path # Absent \/ slides_url # Absent
                                THEN "ValueError: truth value of a DataFrame"
                                ELSE None]
    /\ pc' = "idle"
    /\ runs' = runs + 1
    /\ UNCHANGED <<order_file, secrets, env, credentials_path, disk, run, conv, ret,
                   presentation, sl, next_id, pvars, fvars>>

Next ==
    \/ \E uploaded, clicked \in BOOLEAN : ScriptRun(uploaded, clicked)
    \/ PermissionCheck
    \/ ConvertStart
    \/ \E configured \in BOOLEAN, responses \in SeqsUpTo(PriceResponses, MaxOrders) :
          FetchPrices(configured, responses)
    \/ BuildRows
    \/ WriteInternational
    \/ WriteUS
    \/ StartLabels
    \/ \E ok \in BOOLEAN : GetPresentation(ok)
    \/ \E ok \in BOOLEAN : DuplicateDateSlide(ok)
    \/ \E ok \in BOOLEAN : MoveDateSlide(ok)
    \/ \E outcome \in PageUpdateOutcomes : UpdateDateSlide(outcome)
    \/ \E ok \in BOOLEAN : DuplicateTemplateSlide(ok)
    \/ \E ok \in BOOLEAN : PositionSlide(ok)
    \/ \E outcome \in PageUpdateOutcomes : UpdateOrderDetails(outcome)
    \/ SlidesDone
    \/ Return
    \/ Show

Spec == Init /\ [][Next]_vars

(* ------------------ parse_product_details on its own ------------------- *)
MaxWords == 2

\* the pieces line-item names are made of
ProductWords ==
    {<<"C", "o", "t", "t", "o", "n", " ">>, <<"t", "e", "n", "c", "e", "l", " ">>, <<"B", "u", "n", "d", "l", "e", " ">>, <<"2", " ", "P", "a", "i", "r", "s", " ">>,
     <<"1", "5", "0", "-", "1", "6", "0", "c", "m">>, <<"1", "0", "0", "-", "1", "1", "0">>, <<"-", "1", "2", "0">>, <<"K", "i", "d", "s", " ">>}

RECURSIVE Flatten(_)
Flatten(ws) == IF ws = <<>> THEN <<>> ELSE Head(ws) \o Flatten(Tail(ws))

ProductNames == {Flatten(ws) : ws \in SeqsUpTo(ProductWords, MaxWords)}

\* what the variables of the app hold while a function is applied on its own
AppUnused ==
    /\ order_file = <<>>
    /\ secrets = [creds |-> FALSE, template |-> FALSE]
    /\ env = [GOOGLE_CREDENTIALS_PATH |-> FALSE, SLIDES_TEMPLATE_URL |-> FALSE]
    /\ credentials_path = FALSE
    /\ disk = [orders |-> Absent, intl_csv |-> Absent, us_csv |-> Absent]
    /\ pc = "unused"
    /\ run = None /\ conv = None /\ ret = <<>> /\ presentation = <<>> /\ sl = None
    /\ next_id = 0 /\ shown = None /\ runs = 0
    /\ df_in = <<>> /\ df_out = <<>> /\ df_obj = <<>> /\ buckets = NoBuckets

InitParse ==
    /\ AppUnused
    /\ arg \in ProductNames
    /\ res = <<>>
    /\ sess = <<>>
    /\ fpc = "parse"

ParseProduct ==
    /\ fpc = "parse"
    /\ res' = parse_product_details(arg)
    /\ fpc' = "parsed"
    /\ UNCHANGED <<arg, sess, df_in, df_out, df_obj, buckets, avars>>

NextParse == ParseProduct

SpecParse == InitParse /\ [][NextParse]_vars

(* -------------------- update_order_details on its own ------------------ *)
MaxElements == 3

\* the five fields, in the order of field_updates, field_patterns and
\* field_values
Fields == <<"name", "contact", "address", "postal", "item">>

\* A text element of the slide: its object id, the field labels ("NAME:",
\* "CONTACT:", ..) its uppercased text contains, and its translateX and
\* translateY.  The label has its fields in the column at x = 0; a shape at
\* x = 100 is in the column to the right of it.
ElementKinds == {{}, {"name"}, {"contact"}, {"item"}, {"name", "contact"}}
ElementPositions == {<<0, 0>>, <<0, 10>>, <<100, 0>>}
PageElements ==
    {[i \in 1..Len(e) |-> [id |-> i, has |-> e[i][1], x |-> e[i][2][1], y |-> e[i][2][2]]] :
        e \in SeqsUpTo(ElementKinds \X ElementPositions, MaxElements)}

\* the first table of the slide, if any: its number of rows
PageTables == {Absent, Some(0), Some(2), Some(5)}

\* the object id of the table cell at (row, 0)
cell_id(row) == 100 + row

\* APPROACH 1: the cell at (row, 0) gets the field of that row
table_updates(rows) ==
    [k \in 1..(IF rows < Len(Fields) THEN rows ELSE Len(Fields)) |->
        [objectId |-> cell_id(k - 1), field |-> Fields[k]]]

\* the first pattern of field_patterns the element's text contains
first_pattern(has) == CHOOSE k \in 1..Len(Fields) :
    /\ Fields[k] \in has
    /\ \A j \in 1..(k - 1) : Fields[j] \notin has

\* APPROACH 2: every element whose text contains a pattern gets the field
\* of the first such pattern ("break": one replacement per element)
text_updates(elements) ==
    LET matched == SelectSeq(elements, LAMBDA e : e.has # {})
    IN  [k \in 1..Len(matched) |->
            [objectId |-> matched[k].id, field |-> Fields[first_pattern(matched[k].has)]]]

\* sorted(element_positions, key=y): the elements from top to bottom, ties
\* in their order on the page
RECURSIVE sorted_by_y(_)
sorted_by_y(elements) ==
    IF elements = <<>> THEN <<>>
    ELSE LET k == CHOOSE i \in 1..Len(elements) :
                    \A j \in 1..Len(elements) :
                        elements[i].y < elements[j].y \/
                        (elements[i].y = elements[j].y /\ i <= j)
         IN  <<elements[k]>> \o
             sorted_by_y(SubSeq(elements, 1, k - 1) \o SubSeq(elements, k + 1, Len(elements)))

\* APPROACH 3: the i-th element from the top gets the i-th field
positional_updates(elements) ==
    LET sorted_elements == sorted_by_y(elements)
    IN  [k \in 1..(IF Len(elements) < Len(Fields) THEN Len(elements) ELSE Len(Fields)) |->
            [objectId |-> sorted_elements[k].id, field |-> Fields[k]]]

\* APPROACH 1 when the slide has a table with cells, else APPROACH 2
earlier_updates(page) ==
    IF page.table # Absent /\ page.table[1] > 0
    THEN table_updates(page.table[1])
    ELSE text_updates(page.elements)

\* "if not update_requests and text_elements:"
uses_positional(page) == earlier_updates(page) = <<>> /\ page.elements # <<>>

\* the update_requests of update_order_details, one entry for each
\* deleteText / insertText pair
update_requests(page) ==
    IF uses_positional(page)
    THEN positional_updates(page.elements)
    ELSE earlier_updates(page)

InitFields ==
    /\ AppUnused
    /\ arg \in {[elements |-> e, table |-> t] : e \in PageElements, t \in PageTables}
    /\ res = <<>>
    /\ sess = <<>>
    /\ fpc = "page"

\* update_order_details on a duplicated slide, the batchUpdate accepted
PrepareUpdates ==
    /\ fpc = "page"
    /\ res' = update_requests(arg)
    /\ fpc' = "updated"
    /\ UNCHANGED <<arg, sess, df_in, df_out, df_obj, buckets, avars>>

NextFields == PrepareUpdates

SpecFields == InitFields /\ [][NextFields]_vars

(* ------------------ two UI sessions of one server process -------------- *)
\* Streamlit runs the script of each session in a thread of its own; the
\* working directory and its files are those of the process.
Sessions == {1, 2}

\* what a session uploads: one paid order
SessionTables == {WithIndex(<<UploadRow(1, Paid, c)>>) : c \in {SG, US, MY}}

InitSessions ==
    /\ sess \in [Sessions -> {[pc |-> "upload", upload |-> t, converted |-> Absent,
                                 intl_df |-> Absent, preview |-> Absent] :
                                t \in SessionTables}]
    /\ order_file = <<>>
    /\ secrets = [creds |-> FALSE, template |-> FALSE]
    /\ env = [GOOGLE_CREDENTIALS_PATH |-> FALSE, SLIDES_TEMPLATE_URL |-> FALSE]
    /\ credentials_path = FALSE
    /\ disk = [orders |-> Absent, intl_csv |-> Absent, us_csv |-> Absent]
    /\ pc = "unused"
    /\ run = None /\ conv = None /\ ret = <<>> /\ presentation = <<>> /\ sl = None
    /\ next_id = 0 /\ shown = None /\ runs = 0
    /\ df_in = <<>> /\ df_out = <<>> /\ df_obj = <<>> /\ buckets = NoBuckets
    /\ fpc = "unused"
    /\ arg = <<>> /\ res = <<>>

\* the variables a session's script leaves alone
SessionFrame ==
    UNCHANGED <<order_file, secrets, env, credentials_path, pc, run, conv, ret,
                presentation, sl, next_id, shown, runs, pvars, arg, res>>

\* "with open('orders_export.csv', 'wb') as f: f.write(uploaded_file.getvalue())"
SaveUpload(s) ==
    /\ sess[s].pc = "upload"
    /\ disk' = [disk EXCEPT !.orders = Some(sess[s].upload)]
    /\ sess' = [sess EXCEPT ![s].pc = "convert"]
    /\ SessionFrame

\* convert_shopify_to_singpost('orders_export.csv', 'singpost_orders.csv'),
\* with no Google credentials configured and the Shopify prices fetched
SessionConvert(s) ==
    /\ sess[s].pc = "convert"
    /\ LET b == filter_international_orders(clean_shopify_data(disk.orders[1]))
           prices == [n \in {OrderNumber(r["Name"]) : r \in Range(b.us)} |-> usd_price_of(n)]
           intl == intl_singpost_data(b)
           us == us_singpost_data(b, prices)
       IN  /\ disk' = [disk EXCEPT
                         !.intl_csv = IF intl # <<>> THEN Some(DataFrame(intl)) ELSE @,
                         !.us_csv = IF us # <<>> THEN Some(DataFrame(us)) ELSE @]
           /\ sess' = [sess EXCEPT
                         ![s].pc = "preview",
                         ![s].converted = disk.orders,
                         ![s].intl_df = IF intl # <<>> THEN Some(DataFrame(intl)) ELSE Absent]
    /\ SessionFrame

\* the Data Preview tab: singpost_orders.csv is read when it exists
SessionPreview(s) ==
    /\ sess[s].pc = "preview"
    /\ sess' = [sess EXCEPT ![s].pc = "done", ![s].preview = disk.intl_csv]
    /\ disk' = disk
    /\ SessionFrame

NextSessions ==
    \E s \in Sessions : SaveUpload(s) \/ SessionConvert(s) \/ SessionPreview(s)

SpecSessions == InitSessions /\ [][NextSessions]_vars

(* ------------- convert_orders.py run as a script (__main__) ------------ *)
\* the exports found as orders_export.csv: paid orders, one per row, to the
\* four kinds of destination, with classified, unclassified and empty
\* line-item cells
ScriptLineitems == {LineitemA, LineitemB, LineitemUnknown, LineitemNoName, LineitemNoQuantity}
ScriptChoices == ScriptLineitems \X {SG, US, CA, MY}
ScriptTables ==
    {WithIndex([i \in 1..Len(t) |-> MakeRow(NameOfRow[i], Paid, t[i][2], t[i][1])]) :
        t \in SeqsUpTo(ScriptChoices, MaxOrders)}

\* no Google credentials in the environment of the script
InitScript ==
    /\ disk \in {[orders |-> f, intl_csv |-> Absent, us_csv |-> Absent] :
                    f \in {Absent} \cup {Some(t) : t \in ScriptTables}}
    /\ order_file = <<>>
    /\ secrets = [creds |-> FALSE, template |-> FALSE]
    /\ env = [GOOGLE_CREDENTIALS_PATH |-> FALSE, SLIDES_TEMPLATE_URL |-> FALSE]
    /\ credentials_path = FALSE
    /\ pc = "convert"
    /\ run = NoRun
    /\ conv = NoConv
    /\ ret = <<>>
    /\ presentation = TemplateSlides
    /\ sl = NoSlides
    /\ next_id = 3
    /\ shown = None
    /\ runs = 0
    /\ df_in = <<>> /\ df_out = <<>> /\ df_obj = <<>> /\ buckets = NoBuckets
    /\ fpc = "unused"
    /\ arg = <<>> /\ res = <<>> /\ sess = <<>>

\* "result, pdf_path, slides_url = convert_shopify_to_singpost(..)" and
\* "print(result)": three names for what was returned
MainPrint ==
    /\ pc = "show"
    /\ shown' = IF Len(ret) = 3
                THEN [completed |-> TRUE, summary |-> ret[1], preview |-> Absent,
                      link |-> ret[3], error |-> None]
                ELSE [completed |-> FALSE, summary |-> None, preview |-> Absent,
                      link |-> None,
                      error |-> IF ret[1] = "raised" THEN ret[2]
                                ELSE "ValueError: too many values to unpack"]
    /\ pc' = "exit"
    /\ runs' = runs + 1
    /\ UNCHANGED <<order_file, secrets, env, credentials_path, disk, run, conv, ret,
                   presentation, sl, next_id, pvars, fvars>>

NextScript ==
    \/ ConvertStart
    \/ \E configured \in BOOLEAN, responses \in SeqsUpTo(PriceResponses, MaxOrders) :
          FetchPrices(configured, responses)
    \/ BuildRows
    \/ WriteInternational
    \/ WriteUS
    \/ StartLabels
    \/ Return
    \/ MainPrint

SpecScript == InitScript /\ [][NextScript]_vars

(* ------------- one user converting one export after another ----------- *)
MaxUploads == 2

\* the exports uploaded: one order each
RunTables == {t \in UploadTables : Len(t) = 1}

\* no Google credentials configured; nothing uploaded yet
InitRuns ==
    /\ order_file = <<>>
    /\ secrets = [creds |-> FALSE, template |-> FALSE]
    /\ env = [GOOGLE_CREDENTIALS_PATH |-> FALSE, SLIDES_TEMPLATE_URL |-> FALSE]
    /\ credentials_path = FALSE
    /\ disk = [orders |-> Absent, intl_csv |-> Absent, us_csv |-> Absent]
    /\ pc = "idle"
    /\ run = NoRun
    /\ conv = NoConv
    /\ ret = <<>>
    /\ presentation = TemplateSlides
    /\ sl = NoSlides
    /\ next_id = 3
    /\ shown = None
    /\ runs = 0
    /\ df_in = <<>> /\ df_out = <<>> /\ df_obj = <<>> /\ buckets = NoBuckets
    /\ fpc = "unused"
    /\ arg = <<>> /\ res = <<>> /\ sess = <<>>

\* the user uploads an export and clicks the button: the script run saves
\* the upload as orders_export.csv and reaches the conversion
UploadAndClick(file) ==
    /\ pc = "idle"
    /\ runs < MaxUploads
    /\ order_file' = file
    /\ disk' = [disk EXCEPT !.orders = Some(file)]
    /\ run' = [uploaded |-> TRUE, clicked |-> TRUE, conversions |-> 0, drive_calls |-> 0]
    /\ conv' = NoConv
    /\ sl' = NoSlides
    /\ ret' = <<>>
    /\ shown' = None
    /\ pc' = "convert"
    /\ UNCHANGED <<secrets, env, credentials_path, presentation, next_id, runs, pvars, fvars>>

NextRuns ==
    \/ \E file \in RunTables : UploadAndClick(file)
    \/ ConvertStart
    \/ \E configured \in BOOLEAN, responses \in SeqsUpTo(PriceResponses, MaxOrders) :
          FetchPrices(configured, responses)
    \/ BuildRows
    \/ WriteInternational
    \/ WriteUS
    \/ StartLabels
    \/ Return
    \/ Show

SpecRuns == InitRuns /\ [][NextRuns]_vars

(* -------- create_shipping_slides called again on the same document ---- *)
\* the Singapore orders of a run: one order
LabelOrders ==
    {order_details(<<MakeRow(n, Paid, SG, LineitemA)>>) : n \in {Name1Hash, Name2Hash}}

\* the presentation as the shop set it up; no run yet
InitLabels ==
    /\ presentation = TemplateSlides
    /\ next_id = 3
    /\ conv = NoConv
    /\ sl = NoSlides
    /\ pc = "return"
    /\ runs = 0
    /\ order_file = <<>>
    /\ secrets = [creds |-> TRUE, template |-> TRUE]
    /\ env = [GOOGLE_CREDENTIALS_PATH |-> TRUE, SLIDES_TEMPLATE_URL |-> TRUE]
    /\ credentials_path = TRUE
    /\ disk = [orders |-> Absent, intl_csv |-> Absent, us_csv |-> Absent]
    /\ run = NoRun
    /\ ret = <<>>
    /\ shown = None
    /\ df_in = <<>> /\ df_out = <<>> /\ df_obj = <<>> /\ buckets = NoBuckets
    /\ fpc = "unused"
    /\ arg = <<>> /\ res = <<>> /\ sess = <<>>

\* "slides_url = create_shipping_slides(sg_order_details, credentials_path,
\* template_id)" of the next conversion, the one before having returned
CallSlides(sg_order_details) ==
    /\ pc = "return"
    /\ runs < MaxUploads
    /\ runs' = runs + 1
    /\ conv' = [NoConv EXCEPT !.sg_order_details = sg_order_details]
    /\ sl' = [NoSlides EXCEPT !.status = [k \in 1..Len(sg_order_details) |-> "none"]]
    /\ pc' = "sl_get"
    /\ UNCHANGED <<order_file, secrets, env, credentials_path, disk, run, ret,
                   presentation, next_id, shown, pvars, fvars>>

NextLabels ==
    \/ \E sg_order_details \in LabelOrders : CallSlides(sg_order_details)
    \/ \E ok \in BOOLEAN : GetPresentation(ok)
    \/ \E ok \in BOOLEAN : DuplicateDateSlide(ok)
    \/ \E ok \in BOOLEAN : MoveDateSlide(ok)
    \/ \E outcome \in PageUpdateOutcomes : UpdateDateSlide(outcome)
    \/ \E ok \in BOOLEAN : DuplicateTemplateSlide(ok)
    \/ \E ok \in BOOLEAN : PositionSlide(ok)
    \/ \E outcome \in PageUpdateOutcomes : UpdateOrderDetails(outcome)
    \/ SlidesDone

SpecLabels == InitLabels /\ [][NextLabels]_vars

(* ------------- the International CSV written and read back ------------ *)
\* A cell of a table: a text, an integer, a float (in thousandths) or NaN.
StrCell(t) == [type |-> "str", text |-> t, value |-> 0]
IntCell(n) == [type |-> "int", text |-> <<>>, value |-> n]
FloatCell(thousandths) == [type |-> "float", text |-> <<>>, value |-> thousandths]
NaNCell == [type |-> "nan", text |-> <<>>, value |-> 0]

Digits == <<"0", "1", "2", "3", "4", "5", "6", "7", "8", "9">>
DigitValue(c) == (CHOOSE k \in 1..10 : Digits[k] = c) - 1
IsDigits(t) == t # <<>> /\ \A i \in 1..Len(t) : t[i] \in Range(Digits)

\* int("..."): the leading zeros carry no value
RECURSIVE ParseInt(_)
ParseInt(t) ==
    IF t = <<>> THEN 0
    ELSE ParseInt(SubSeq(t, 1, Len(t) - 1)) * 10 + DigitValue(t[Len(t)])

\* str(n) of a non-negative integer
RECURSIVE FormatInt(_)
FormatInt(n) ==
    IF n < 10 THEN <<Digits[n + 1]>>
    ELSE FormatInt(n \div 10) \o <<Digits[(n % 10) + 1]>>

\* repr of a float with at most three decimals: 0.5, 0.25, 4.0
FormatFloat(thousandths) ==
    LET f == thousandths % 1000
        decimals == IF f = 0 THEN <<"0">>
                    ELSE IF f % 100 = 0 THEN FormatInt(f \div 100)
                    ELSE IF f % 10 = 0
                         THEN <<Digits[(f \div 100) + 1]>> \o FormatInt((f \div 10) % 10)
                         ELSE <<Digits[(f \div 100) + 1], Digits[((f \div 10) % 10) + 1],
                                Digits[(f % 10) + 1]>>
    IN  FormatInt(thousandths \div 1000) \o <<".">> \o decimals

PointAt(t) == CHOOSE i \in 1..Len(t) : t[i] = "."
IsFloatText(t) ==
    /\ Cardinality({i \in 1..Len(t) : t[i] = "."}) = 1
    /\ IsDigits(SubSeq(t, 1, PointAt(t) - 1))
    /\ IsDigits(SubSeq(t, PointAt(t) + 1, Len(t)))
    /\ Len(t) - PointAt(t) <= 3
ParseFloat(t) ==
    LET d == SubSeq(t, PointAt(t) + 1, Len(t))
        scale == IF Len(d) = 1 THEN 100 ELSE IF Len(d) = 2 THEN 10 ELSE 1
    IN  ParseInt(SubSeq(t, 1, PointAt(t) - 1)) * 1000 + ParseInt(d) * scale

\* the text to_csv writes for a cell; NaN and '' are written empty
csv_text(cell) ==
    CASE cell.type = "str" -> cell.text
      [] cell.type = "int" -> FormatInt(cell.value)
      [] cell.type = "float" -> FormatFloat(cell.value)
      [] OTHER -> <<>>

\* quoting=1 (QUOTE_ALL), quotechar='"'
Quoted(t) == <<"\"">> \o t \o <<"\"">>
Unquoted(field) ==
    IF Len(field) >= 2 /\ field[1] = "\"" /\ field[Len(field)] = "\""
    THEN SubSeq(field, 2, Len(field) - 1)
    ELSE field

\* the columns of the International table whose cells the file is read for
CsvColumns == <<
    "Send to postcode (Max 10 characters)",
    "Send to phone no. (Max 20 characters)",
    "Total Item physical weight (min 0.001 kg) - *",
    "Item Height (cm)",
    "Item Content No. 1 HS tariff number (Max 6 characters)"
>>

\* DataFrame.to_csv(index=False): the header and one record per row
to_csv(table) ==
    [header  |-> [c \in 1..Len(CsvColumns) |-> Quoted(StrCell(CsvColumns[c]).text)],
     records |-> [i \in 1..Len(table) |->
                    [c \in 1..Len(CsvColumns) |-> Quoted(csv_text(table[i][CsvColumns[c]]))]]]

\* the type pd.read_csv infers for a column from all its fields
column_type(fields) ==
    LET present == {i \in 1..Len(fields) : fields[i] # <<>>}
    IN  IF present = {} THEN "float"
        ELSE IF \A i \in present : IsDigits(fields[i])
             THEN (IF present = DOMAIN fields THEN "int" ELSE "float")
        ELSE IF \A i \in present : IsDigits(fields[i]) \/ IsFloatText(fields[i])
             THEN "float"
        ELSE "object"

parse_field(field, type) ==
    IF field = <<>> THEN NaNCell
    ELSE CASE type = "int" -> IntCell(ParseInt(field))
           [] type = "float" -> FloatCell(IF IsDigits(field) THEN ParseInt(field) * 1000
                                          ELSE ParseFloat(field))
           [] OTHER -> StrCell(field)

\* pd.read_csv(file) with the default options
read_csv(file) ==
    LET column(c) == [i \in 1..Len(file.records) |-> Unquoted(file.records[i][c])]
    IN  [i \in 1..Len(file.records) |->
            [name \in {Unquoted(file.header[c]) : c \in 1..Len(file.header)} |->
                LET c == CHOOSE k \in 1..Len(file.header) : Unquoted(file.header[k]) = name
                IN  parse_field(column(c)[i], column_type(column(c)))]]

\* the text of an HS code
CodeText(hs_code) ==
    IF hs_code = "611430" THEN <<"6", "1", "1", "4", "3", "0">>
    ELSE <<"6", "1", "1", "4", "2", "0">>

\* postcodes and phone numbers of the orders: the export row holds them as
\* texts (str(..)[:n]), the phone number as '' when the order has none
Postcodes == {<<"0", "1", "0", "6", "7">>, <<"1", "0", "1", "1", "5">>, <<"S", "W", "1", "A">>}
Phones == {<<>>, <<"+", "4", "9", " ", "3", "0">>, <<"0", "3", "0", "1">>}

ExportCells(postcode, phone, is_bundle, material) ==
    ("Send to postcode (Max 10 characters)" :> StrCell(postcode)) @@
    ("Send to phone no. (Max 20 characters)" :> StrCell(phone)) @@
    ("Total Item physical weight (min 0.001 kg) - *" :> FloatCell(weight_kg(is_bundle))) @@
    ("Item Height (cm)" :> IntCell(height(is_bundle))) @@
    ("Item Content No. 1 HS tariff number (Max 6 characters)" :>
        StrCell(CodeText(intl_hs_code(material))))

ExportRows ==
    {ExportCells(z, ph, b, m) : z \in Postcodes, ph \in Phones,
                                b \in BOOLEAN, m \in {"Cotton", "Tencel"}}

\* intl_df of a run with one to MaxOrders International orders
ExportTables == SeqsUpTo(ExportRows, MaxOrders) \ {<<>>}

InitCsv ==
    /\ arg \in ExportTables
    /\ res = <<>>
    /\ sess = <<>>
    /\ order_file = <<>>
    /\ secrets = [creds |-> FALSE, template |-> FALSE]
    /\ env = [GOOGLE_CREDENTIALS_PATH |-> FALSE, SLIDES_TEMPLATE_URL |-> FALSE]
    /\ credentials_path = FALSE
    /\ disk = [orders |-> Absent, intl_csv |-> Absent, us_csv |-> Absent]
    /\ pc = "unused"
    /\ run = None /\ conv = None /\ ret = <<>> /\ presentation = <<>> /\ sl = None
    /\ next_id = 0 /\ shown = None /\ runs = 0
    /\ df_in = <<>> /\ df_out = <<>> /\ df_obj = <<>> /\ buckets = NoBuckets
    /\ fpc = "table"

\* intl_df.to_csv(output_file, index=False, sep=',', quoting=1, ..)
WriteCsv ==
    /\ fpc = "table"
    /\ disk' = [disk EXCEPT !.intl_csv = Some(to_csv(arg))]
    /\ fpc' = "written"
    /\ UNCHANGED <<order_file, secrets, env, credentials_path, pc, run, conv, ret,
                   presentation, sl, next_id, shown, runs,
                   df_in, df_out, df_obj, buckets, fvars>>

\* the Data Preview tab: df = pd.read_csv("singpost_orders.csv")
ReadCsv ==
    /\ fpc = "written"
    /\ res' = read_csv(disk.intl_csv[1])
    /\ fpc' = "read_back"
    /\ UNCHANGED <<arg, sess, df_in, df_out, df_obj, buckets, avars>>

NextCsv == WriteCsv \/ ReadCsv

SpecCsv == InitCsv /\ [][NextCsv]_vars

(* ---------------- properties of the clean / filter pipeline ------------ *)
\* the order numbers of the input and the input rows that carry them
InputRowsOf(num) == SelectSeq(df_in, LAMBDA r : OrderNumber(r["Name"]) = num)
OutputRowsOf(num) == SelectSeq(df_out, LAMBDA r : OrderNumber(r["Name"]) = num)
AmendedOrders ==
    {num \in {OrderNumber(r["Name"]) : r \in Range(df_in)} : Len(InputRowsOf(num)) >= 2}
AllBuckets == <<buckets.intl, buckets.sg, buckets.us, buckets.ca>>

C2_NoUnpaidRowInBuckets ==
    fpc = "filtered" =>
        \A b \in 1..4 : \A k \in 1..Len(AllBuckets[b]) :
            /\ AllBuckets[b][k]["Financial Status"] # NaN
            /\ RowAt(df_in, AllBuckets[b][k]["index"])["Financial Status"] # NaN

C2_Witness ==
    /\ fpc = "filtered"
    /\ \E r \in Range(df_in) : r["Financial Status"] = NaN
    /\ \E b \in 1..4 : AllBuckets[b] # <<>>

\* C3: the row kept for an order number with two or more input rows is the
\* first input row of the order with the four Lineitem columns taken from
\* the last input row of the order and every other column unchanged.
C3_KeptRowIsFirstWithLastLineitems ==
    fpc # "read" =>
        \A num \in AmendedOrders : \A k \in 1..Len(OutputRowsOf(num)) :
            LET kept == OutputRowsOf(num)[k]
                first == InputRowsOf(num)[1]
                last == InputRowsOf(num)[Len(InputRowsOf(num))]
            IN  /\ DOMAIN kept = DOMAIN first
                /\ \A col \in DOMAIN first :
                     kept[col] = IF col \in {"Lineitem quantity", "Lineitem name",
                                             "Lineitem price", "Lineitem discount"}
                                 THEN last[col] ELSE first[col]

C3_Witness ==
    /\ fpc = "cleaned"
    /\ \E num \in AmendedOrders :
        /\ Len(InputRowsOf(num)) = 3
        /\ Len(OutputRowsOf(num)) = 1
        /\ InputRowsOf(num)[1]["Lineitem name"] # InputRowsOf(num)[3]["Lineitem name"]
        /\ InputRowsOf(num)[2]["Lineitem name"] # InputRowsOf(num)[3]["Lineitem name"]
        /\ InputRowsOf(num)[1]["Name"] # InputRowsOf(num)[3]["Name"]

\* C6: the four buckets partition the cleaned rows: a row is in the SG, US
\* or CA bucket iff its Shipping Country is that code, in the International
\* bucket otherwise (a missing country included), and in no other bucket;
\* the bucket sizes add up to the number of cleaned rows.
InBucket(b, r) == \E k \in 1..Len(b) : b[k] = r
BucketCount(r) == Cardinality({b \in 1..4 : InBucket(AllBuckets[b], r)})

C6_BucketsPartitionCleanedRows ==
    fpc = "filtered" =>
        /\ \A r \in Range(df_out) :
            /\ BucketCount(r) = 1
            /\ InBucket(buckets.sg, r) <=> r["Shipping Country"] = SG
            /\ InBucket(buckets.us, r) <=> r["Shipping Country"] = US
            /\ InBucket(buckets.ca, r) <=> r["Shipping Country"] = CA
            /\ InBucket(buckets.intl, r) <=> r["Shipping Country"] \notin {SG, US, CA}
        /\ \A b \in 1..4 : Range(AllBuckets[b]) \subseteq Range(df_out)
        /\ Len(buckets.intl) + Len(buckets.sg) + Len(buckets.us) + Len(buckets.ca)
             = Len(df_out)

C6_Witness ==
    /\ fpc = "filtered"
    /\ Len(df_in) = 3
    /\ Len(df_out) = 2
    /\ \E r \in Range(buckets.intl) : r["Shipping Country"] = NaN
    /\ Len(buckets.ca) = 1

(* --------------------- properties of the conversion -------------------- *)
Converted == disk.orders[1]
HasCountry(df, c) == \E r \in Range(df) : r["Shipping Country"] = c
InvoiceNumbers(data) == [i \in 1..Len(data) |-> data[i]["Invoice number"]]
Countries(data) ==
    {data[i]["Send to country (Max 2 characters) - * (Refer to Country List sheet)"] :
        i \in 1..Len(data)}
\* the conversion got past the price fetch and built its rows
RowsBuilt == conv.summary # <<>>

C5_ColumnCountsAlways ==
    (pc = "show" /\ RowsBuilt) =>
        /\ disk.intl_csv # Absent /\ disk.intl_csv[1].columns = 42
        /\ disk.us_csv # Absent /\ disk.us_csv[1].columns = 55

\* C5 (amended): for a region with at least one order the table and the CSV
\* written have exactly 42 (International) and 55 (US) columns; for a region
\* with no order no table is built and no CSV is written.
C5_ColumnCountsWhenOrders ==
    (pc = "show" /\ RowsBuilt) =>
        /\ IF conv.buckets.intl # <<>>
           THEN /\ conv.intl_df # Absent
                /\ conv.intl_df[1].columns = 42
                /\ disk.intl_csv = conv.intl_df
                /\ "singpost_orders.csv" \in conv.files_written
           ELSE /\ conv.intl_df = Absent
                /\ "singpost_orders.csv" \notin conv.files_written
        /\ IF conv.buckets.us # <<>>
           THEN /\ conv.us_df # Absent
                /\ conv.us_df[1].columns = 55
                /\ disk.us_csv = conv.us_df
                /\ "singpost_orders_us.csv" \in conv.files_written
           ELSE /\ conv.us_df = Absent
                /\ "singpost_orders_us.csv" \notin conv.files_written

C5_Witness ==
    /\ pc = "show"
    /\ RowsBuilt
    /\ Len(conv.buckets.intl) = 1
    /\ conv.buckets.us = <<>>
    /\ disk.intl_csv # Absent /\ disk.intl_csv[1].columns = 42
    /\ disk.us_csv = Absent

\* C7: the International table has one row per cleaned order whose country is
\* none of SG, US, CA, the US table one row per cleaned US order, both in
\* input order; Singapore and Canada orders contribute no row.
Eligible(df, test(_)) ==
    LET kept == SelectSeq(df, test)
    IN  [i \in 1..Len(kept) |-> kept[i]["Name"]]
IsUS(r) == r["Shipping Country"] = US
IsRestOfWorld(r) == r["Shipping Country"] \notin {SG, US, CA}

C7_OneExportRowPerEligibleOrder ==
    (pc = "show" /\ RowsBuilt) =>
        LET cleaned == clean_shopify_data(Converted)
        IN  /\ InvoiceNumbers(conv.intl_singpost_data) = Eligible(cleaned, IsRestOfWorld)
            /\ InvoiceNumbers(conv.us_singpost_data) = Eligible(cleaned, IsUS)
            /\ Countries(conv.intl_singpost_data) \cap {SG, US, CA} = {}
            /\ Countries(conv.us_singpost_data) \subseteq {US}
            /\ conv.intl_df # Absent =>
                 Len(conv.intl_df[1].rows) = Len(conv.intl_singpost_data)
            /\ conv.us_df # Absent =>
                 Len(conv.us_df[1].rows) = Len(conv.us_singpost_data)

C7_Witness ==
    /\ pc = "show"
    /\ RowsBuilt
    /\ Len(Converted) = 2
    /\ Len(conv.intl_singpost_data) = 1
    /\ Len(conv.buckets.ca) = 1
    /\ Converted[1]["Shipping Country"] = CA

\* C8: convert_shopify_to_singpost runs only in a script run in which a file
\* is uploaded and the button was clicked, and once in such a run.
C8_ConversionOnlyOnClick ==
    /\ run.conversions <= 1
    /\ run.conversions > 0 => (run.uploaded /\ run.clicked)

\* C9: a failed remote presentation call is not raised out of
\* create_shipping_slides and does not abort the run: the conversion returns
\* its summary and tables, and the CSV files written before stay written.
C9_ApiFailureNeverAborts ==
    conv.api_failed =>
        /\ ~conv.slides_raised
        /\ Head(conv.summary) = "ORDER DETAILS BY REGION"
        /\ pc = "show" =>
             ret = <<conv.summary, conv.intl_df, conv.us_df, conv.slides_url>>
        /\ conv.buckets.intl # <<>> =>
             (conv.intl_df # Absent /\ disk.intl_csv = conv.intl_df)
        /\ conv.buckets.us # <<>> =>
             (conv.us_df # Absent /\ disk.us_csv = conv.us_df)

C9_Witness ==
    /\ pc = "show"
    /\ conv.api_failed
    /\ sl.status = <<"duplicate_failed">>
    /\ Len(ret) = 4
    /\ conv.intl_df # Absent
    /\ disk.intl_csv = conv.intl_df

\* C10: when a batch update issued for one Singapore order fails (duplicate,
\* position or fields), create_shipping_slides still creates the label
\* slides of all later orders.
FailedStatus == {"duplicate_failed", "position_failed", "fill_failed"}
C10_LaterOrdersStillGetSlides ==
    pc \in {"return", "show"} =>
        \A j, k \in DOMAIN sl.status :
            (j < k /\ sl.status[j] \in FailedStatus) => sl.status[k] # "none"

\* C11: in a run of create_shipping_slides with n orders in which every
\* remote call succeeds, the presentation gains the new date slide and n
\* copies of the template slide; the new date slide is at index 0 and the
\* slide of the i-th order is at index i (the sequence is 1-based here).
AllCallsSucceeded ==
    /\ pc \in {"return", "show", "idle"}
    /\ sl.status # <<>>
    /\ ~conv.api_failed
    /\ \A k \in DOMAIN sl.status : sl.status[k] = "filled"
C11_LabelSlidesFollowOrderList ==
    AllCallsSucceeded =>
        LET n == Len(conv.sg_order_details)
        IN  /\ Len(sl.status) = n
            /\ Len(presentation) = sl.slides_before + 1 + n
            /\ presentation[1].id = sl.new_date_slide_id
            /\ presentation[1].kind = "date"
            /\ \A i \in 1..n :
                 /\ presentation[i + 1].kind = presentation[n + 3].kind
                 /\ presentation[i + 1].id > sl.new_date_slide_id
                 /\ presentation[i + 1].text = conv.sg_order_details[i].order_number
            /\ \A i, j \in 1..(n + 1) : i < j => presentation[i].id < presentation[j].id

C11_Witness ==
    /\ AllCallsSucceeded
    /\ Len(conv.sg_order_details) = 2
    /\ presentation[2].text = Name1Hash
    /\ presentation[3].text = Name2Hash

\* C12: product classification never fails hard.  For every line-item name
\* of a cleaned order, an empty cell included, the conversion raises nothing
\* while building its rows; a name with no known material gets material
\* 'Unknown', a name with no known size band gets size 'Unknown', and every
\* order has its details entry and, when US or International, its export row.
NoKnownMaterial(name) ==
    name = NaN \/ (~Contains(Upper(name), COTTON) /\ ~Contains(Upper(name), TENCEL))
NoKnownSize(name) ==
    name = NaN \/ \A k \in DOMAIN SizeBands : ~Contains(Upper(name), SizeBands[k].text)
UnknownsMarked(region_df, details) ==
    /\ Len(details) = Len(region_df)
    /\ \A i \in DOMAIN region_df :
         /\ NoKnownMaterial(region_df[i]["Lineitem name"]) => details[i].material = "Unknown"
         /\ NoKnownSize(region_df[i]["Lineitem name"]) => details[i].size = "Unknown"
C12_ClassificationNeverFailsHard ==
    pc \in {"write_intl", "write_us", "labels", "return", "show", "exit"} =>
        \/ Len(ret) = 3 /\ ret[1] = "Error: Input file not found"
        \/ Len(ret) = 4 /\ ret[1] = "Error fetching USD prices from Shopify API"
        \/ /\ ret = <<>> \/ Len(ret) = 4
           /\ UnknownsMarked(conv.buckets.sg, conv.sg_order_details)
           /\ UnknownsMarked(conv.buckets.us, conv.us_order_details)
           /\ UnknownsMarked(conv.buckets.ca, conv.ca_order_details)
           /\ UnknownsMarked(conv.buckets.intl, conv.intl_order_details)
           /\ Len(conv.us_singpost_data) = Len(conv.buckets.us)
           /\ Len(conv.intl_singpost_data) = Len(conv.buckets.intl)

\* C13: parse_product_details is this function of the uppercased name:
\* material 'Cotton' if it contains 'COTTON', else 'Tencel' if it contains
\* 'TENCEL'; size the label of the first band, in the order 100-110 ...
\* 180-190, whose text it contains; is_bundle iff it contains 'BUNDLE' or
\* '2 PAIRS'.
BandsInOrder == <<
    <<"1", "0", "0", "-", "1", "1", "0">>, <<"1", "1", "0", "-", "1", "2", "0">>, <<"1", "2", "0", "-", "1", "3", "0">>,
    <<"1", "3", "0", "-", "1", "4", "0">>, <<"1", "4", "0", "-", "1", "5", "0">>, <<"1", "5", "0", "-", "1", "6", "0">>,
    <<"1", "6", "0", "-", "1", "7", "0">>, <<"1", "7", "0", "-", "1", "8", "0">>, <<"1", "8", "0", "-", "1", "9", "0">>>>
BandLabels == <<"(100-110cm)", "(110-120cm)", "(120-130cm)", "(130-140cm)",
                "XS (140-150cm)", "S (150-160cm)", "M (160-170cm)",
                "L (170-180cm)", "XL (180-190cm)">>
C13_ClassificationFunction ==
    fpc = "parsed" =>
        LET u == Upper(arg)
        IN  /\ Contains(u, <<"C", "O", "T", "T", "O", "N">>) => res.material = "Cotton"
            /\ (~Contains(u, <<"C", "O", "T", "T", "O", "N">>) /\ Contains(u, <<"T", "E", "N", "C", "E", "L">>)) => res.material = "Tencel"
            /\ \A k \in DOMAIN BandsInOrder :
                 (Contains(u, BandsInOrder[k]) /\
                  \A j \in 1..(k - 1) : ~Contains(u, BandsInOrder[j]))
                     => res.size = BandLabels[k]
            /\ res.is_bundle <=> (Contains(u, <<"B", "U", "N", "D", "L", "E">>) \/ Contains(u, <<"2", " ", "P", "A", "I", "R", "S">>))

C13_Witness ==
    /\ fpc = "parsed"
    /\ arg = <<"C", "o", "t", "t", "o", "n", " ", "1", "5", "0", "-", "1", "6", "0", "c", "m">>
    /\ res = [is_bundle |-> FALSE, material |-> "Cotton", size |-> "S (150-160cm)"]

C15_CleanLeavesArgumentUnchanged ==
    fpc # "read" => df_obj = df_in

\* C16: when the input file does not exist, convert_shopify_to_singpost
\* reads nothing, writes no CSV and makes no remote call, and its 'not
\* found' message is what the app shows to the user.
FileNotFound == Len(ret) = 3 /\ ret[1] = "Error: Input file not found"
C16_NotFoundMessageIsShown ==
    (pc = "idle" /\ FileNotFound) =>
        /\ conv = NoConv
        /\ disk.intl_csv = Absent /\ disk.us_csv = Absent
        /\ run.drive_calls = 0
        /\ shown.summary = ret[1] \/ shown.error = ret[1]

\* C17: under any interleaving of two sessions, the order data a session's
\* conversion converts is that session's own upload, and the result CSV it
\* previews is the one its own conversion produced (none when its upload
\* has no international order): no file is shared between sessions or runs.
C17_SessionsSeeOwnData ==
    \A s \in DOMAIN sess :
        /\ sess[s].pc \in {"preview", "done"} => sess[s].converted = Some(sess[s].upload)
        /\ sess[s].pc = "done" => sess[s].preview = sess[s].intl_df

\* C19: a missing value in a required-field column is only logged.  The
\* table is written with all its rows before the check, nothing is raised,
\* and the conversion returns its normal result.
MissingQuantity(region_df) == \E r \in Range(region_df) : r["Lineitem quantity"] = NaN
C19_MissingRequiredOnlyLogged ==
    (pc \in {"write_us", "labels", "return", "show", "exit"} /\
     MissingQuantity(conv.buckets.intl) /\ conv.summary # <<>>) =>
        /\ conv.warnings = {"Item Content No. 1 Quantity - *"}
        /\ "singpost_orders.csv" \in conv.files_written
        /\ disk.intl_csv = conv.intl_df
        /\ Len(disk.intl_csv[1].rows) = Len(conv.buckets.intl)
        /\ \E i \in DOMAIN disk.intl_csv[1].rows :
             disk.intl_csv[1].rows[i]["Item Content No. 1 Quantity - *"] = NaN
        /\ ret = <<>> \/ ret = <<conv.summary, conv.intl_df, conv.us_df, conv.slides_url>>

C19_Witness ==
    /\ pc = "show"
    /\ Len(conv.buckets.intl) = 2
    /\ conv.buckets.intl[1]["Lineitem quantity"] = NaN
    /\ conv.buckets.intl[2]["Lineitem quantity"] # NaN
    /\ conv.warnings # {}
    /\ Len(ret) = 4
    /\ ret[2] = disk.intl_csv

\* C20: on a duplicated slide update_order_details overwrites each of the
\* five fields in at most one element, so at most five elements are
\* overwritten, and no element is overwritten twice.
C20_EachFieldInAtMostOneElement ==
    fpc = "updated" =>
        /\ \A j, k \in DOMAIN res : (j # k) => res[j].field # res[k].field
        /\ Len(res) <= 5
        /\ \A j, k \in DOMAIN res : (j # k) => res[j].objectId # res[k].objectId

\* C21: the positional fallback is used only when the earlier strategy
\* prepared no update, and it assigns name, contact, address, postal and
\* item, in that order, to the left-column text elements of the slide sorted
\* top to bottom.
LeftColumn(e) == e.x = 0
FieldsTopDown(elements) ==
    LET sorted_elements == sorted_by_y(elements)
    IN  [k \in 1..(IF Len(elements) < Len(Fields) THEN Len(elements) ELSE Len(Fields)) |->
            [objectId |-> sorted_elements[k].id, field |-> Fields[k]]]
C21_PositionalFallbackFillsLeftColumn ==
    fpc = "updated" =>
        /\ res # earlier_updates(arg) => earlier_updates(arg) = <<>>
        /\ (earlier_updates(arg) = <<>> /\ res # <<>>) =>
              res = FieldsTopDown(SelectSeq(arg.elements, LeftColumn))

\* C22: when neither the field-label match nor the positional fallback
\* finds an element to overwrite on the duplicated slide (no table cell, no
\* text element), update_order_details requests new text elements on the
\* slide, one holding each of the order's five field values.
NothingToOverwrite(page) ==
    /\ page.elements = <<>>
    /\ page.table = Absent \/ page.table[1] = 0
C22_NewElementsWhenNothingMatched ==
    (fpc = "updated" /\ NothingToOverwrite(arg)) =>
        \A k \in DOMAIN Fields : \E j \in DOMAIN res : res[j].field = Fields[k]

\* C23: export values are a fixed function of region, bundle flag and
\* material.  Every International row has declared value 40, weight 0.5 kg
\* and height 4 for a bundle, else 20, 0.25 kg and 2, and HS code '611430'
\* for Tencel, '611420' for Cotton or Unknown; every US row has HS code
\* '6114303070' for Tencel, '6114200060' for Cotton or Unknown, and the same
\* weight and height.
WeightAndHeight(export_row, is_bundle) ==
    /\ export_row["Total Item physical weight (min 0.001 kg) - *"] = (IF is_bundle THEN 500 ELSE 250)
    /\ export_row["Item Height (cm)"] = (IF is_bundle THEN 4 ELSE 2)
C23_ExportValuesAreFixed ==
    pc \in {"write_intl", "write_us", "labels", "return", "show", "exit"} =>
        /\ \A i \in DOMAIN conv.intl_singpost_data :
             LET p == parse_product_details(conv.buckets.intl[i]["Lineitem name"])
                 export_row == conv.intl_singpost_data[i]
             IN  /\ WeightAndHeight(export_row, p.is_bundle)
                 /\ export_row["Item Content No. 1 Weight (min 0.001 kg) - *"] = (IF p.is_bundle THEN 500 ELSE 250)
                 /\ export_row[" Item Content No. 1 Declared value (SGD)"] = (IF p.is_bundle THEN 40 ELSE 20)
                 /\ export_row["Item Content No. 1 HS tariff number (Max 6 characters)"] =
                      (IF p.material = "Tencel" THEN "611430" ELSE "611420")
        /\ \A i \in DOMAIN conv.us_singpost_data :
             LET p == parse_product_details(conv.buckets.us[i]["Lineitem name"])
                 export_row == conv.us_singpost_data[i]
             IN  /\ WeightAndHeight(export_row, p.is_bundle)
                 /\ export_row["Item Content No. 1 Weight (min 0.001 kg)"] = (IF p.is_bundle THEN 500 ELSE 250)
                 /\ export_row["Item Content No. 1 HS tariff number (10 characters) *"] =
                      (IF p.material = "Tencel" THEN "6114303070" ELSE "6114200060")

C23_Witness ==
    /\ pc = "show"
    /\ Len(conv.intl_singpost_data) = 1
    /\ conv.buckets.intl[1]["Lineitem name"] = GiftCard
    /\ conv.intl_singpost_data[1][" Item Content No. 1 Declared value (SGD)"] = 20
    /\ Len(conv.us_singpost_data) = 1
    /\ conv.buckets.us[1]["Lineitem name"] = TencelBundleM
    /\ conv.us_singpost_data[1]["Item Content No. 1 HS tariff number (10 characters) *"] = "6114303070"
    /\ conv.us_singpost_data[1]["Item Height (cm)"] = 4

\* C24: round trip.  Reading back the CSV that the conversion wrote yields,
\* for every non-empty cell of the export table, the same value: the same
\* number, or a value that is written as the same text (postcodes, phone
\* numbers, weights and HS codes included).
NonEmpty(cell) == cell.type # "nan" /\ cell # StrCell(<<>>)
IsNumber(cell) == cell.type \in {"int", "float"}
Thousandths(cell) == IF cell.type = "int" THEN cell.value * 1000 ELSE cell.value
SameValue(a, b) ==
    \/ csv_text(a) = csv_text(b) /\ NonEmpty(b)
    \/ IsNumber(a) /\ IsNumber(b) /\ Thousandths(a) = Thousandths(b)
C24_CsvRoundTrip ==
    fpc = "read_back" =>
        /\ Len(res) = Len(arg)
        /\ \A i \in DOMAIN arg : \A col \in DOMAIN arg[i] :
             NonEmpty(arg[i][col]) => SameValue(arg[i][col], res[i][col])

\* C25: if fetching the USD price fails for a US order (credentials not
\* configured, request error, order not found, unexpected response shape),
\* no further price request is issued and the conversion stops: it returns
\* an error message with no tables and no slides URL, has written neither
\* CSV and has made no remote document call.
C25_PriceFailureStopsRun ==
    conv.price_error # None =>
        /\ conv.price_error = "not_configured" => conv.price_requests = 0
        /\ conv.price_error # "not_configured" =>
             /\ conv.price_requests = Len(conv.price_responses)
             /\ conv.price_requests <= Len(conv.buckets.us)
             /\ conv.price_responses[conv.price_requests] = conv.price_error
             /\ \A k \in 1..(conv.price_requests - 1) : conv.price_responses[k] = "ok"
        /\ pc \in {"show", "idle"}
        /\ Len(ret) = 4
        /\ ret[1] = "Error fetching USD prices from Shopify API"
        /\ ret[2] = Absent /\ ret[3] = Absent /\ ret[4] = None
        /\ conv.files_written = {}
        /\ conv.intl_singpost_data = <<>> /\ conv.us_singpost_data = <<>>
        /\ conv.slides_calls = 0

C25_Witness ==
    /\ pc = "idle"
    /\ Len(conv.buckets.us) = 2
    /\ conv.price_responses = <<"not_found">>
    /\ conv.price_requests = 1
    /\ env.GOOGLE_CREDENTIALS_PATH /\ env.SLIDES_TEMPLATE_URL

\* C26: after any sequence of conversion runs the app previews
\* 'singpost_orders.csv' (and offers it for download) only if the most
\* recent run produced International orders; after a run with no
\* International orders the app reports that no SingPost CSV was generated.
LastRunDisplayed == pc = "idle" /\ runs > 0 /\ shown.completed
C26_PreviewIsOfLastRun ==
    LastRunDisplayed =>
        /\ shown.preview # Absent => conv.intl_singpost_data # <<>>
        /\ conv.buckets.intl = <<>> => shown.preview = Absent

\* C27: across any sequence of create_shipping_slides runs against the same
\* presentation, the slide taken as the date slide (index 0) is a date slide
\* and the slide taken as the label template (index 1) is the original blank
\* template slide, never a label slide filled in by an earlier run.
SlidesTaken == pc \in {"sl_dup_date", "sl_move_date", "sl_update_date", "sl_dup"}
SlideWithId(id) == presentation[SlideIndex(presentation, id)]
C27_TemplateIsOriginalBlank ==
    SlidesTaken =>
        /\ SlideWithId(sl.date_slide_id).kind = "date"
        /\ sl.template_slide_id = TemplateSlides[2].id
        /\ SlideWithId(sl.template_slide_id) = TemplateSlides[2]

\* C28: every return path of convert_shopify_to_singpost returns a tuple of
\* the same four components (summary, International table, US table, slides
\* URL), so the caller's unpacking succeeds on every path that returns,
\* error paths included.
ReturnedNormally == pc = "show" /\ ~(Len(ret) = 2 /\ ret[1] = "raised")
UnpackErrors ==
    {"ValueError: not enough values to unpack", "ValueError: too many values to unpack"}
C28_EveryReturnHasFourComponents ==
    /\ ReturnedNormally => Len(ret) = 4
    /\ (pc \in {"idle", "exit"} /\ runs > 0) => shown.error \notin UnpackErrors

\* C29: the app shows the 'Open Google Slides Shipping Labels' link if and
\* only if the conversion returned a slides URL, and the link target is
\* that URL (no link is shown as None).
C29_LinkIsReturnedUrl ==
    (pc = "idle" /\ runs > 0 /\ Len(ret) = 4) => shown.link = ret[4]

\* C30: the summary contains 'Created Google Slides presentation' only if
\* create_shipping_slides created and filled one label slide for every
\* Singapore order of the run; in every other outcome of the call the
\* summary reports the Slides error instead.
SlidesOutcomeReported ==
    \E k \in DOMAIN conv.summary :
        conv.summary[k] \in {"Created Google Slides presentation",
                             "Error: Could not create Google Slides",
                             "Error creating Google Slides"}
AllLabelsFilled ==
    /\ Len(sl.status) = Len(conv.sg_order_details)
    /\ \A k \in DOMAIN sl.status : sl.status[k] = "filled"
C30_CreatedOnlyWhenAllLabelsFilled ==
    SlidesOutcomeReported =>
        IF AllLabelsFilled
        THEN "Created Google Slides presentation" \in Range(conv.summary)
        ELSE /\ "Created Google Slides presentation" \notin Range(conv.summary)
             /\ \/ "Error: Could not create Google Slides" \in Range(conv.summary)
                \/ "Error creating Google Slides" \in Range(conv.summary)
====
